---- MODULE Spec2Model ----
\* Verification model of src/app.py: a Streamlit question-bank application.
\* One script run (from the top of the page script to st.stop() or st.rerun())
\* is one step.  st.session_state, the three worksheets and the wall clock
\* are the state.
EXTENDS Integers, Sequences, FiniteSets, TLC

\* ---------------------------------------------------------------- bounds
MaxNumQ == 2        \* largest value chosen on the "Number of questions" slider
MaxRows == 2        \* rows the tests worksheet may hold
MaxTime == 180      \* the clock stops advancing here
MaxHistory == 1     \* entries navigation_history may hold
MaxStored == 11     \* Test Records a worksheet read by the analytics tab holds
MaxRecords == 2     \* records the first data file may hold

\* ---------------------------------------------------------------- data
SecondsPerQuestion == 90
TrendWindow == 10

Letters == <<"A", "B", "C", "D", "E">>

Usernames == {"u1"}
Passwords == {"p1"}          \* passwords of accounts
LoginPasswords == {"p1", "bad"}  \* passwords typed on the login form
TimeSteps == {180}
PickLetters == {"A", "B"}
Modes == {"Reading", "Test"}

\* hashlib.sha256(pw).hexdigest(): injective on the passwords used
hash_pw(pw) == <<"sha256", pw>>

\* load_all_questions: the normalised records of the bundled data files.
\* Option texts are distinct inside a question; "y" is an option of both
\* questions, under different letters.  "" stands for an absent choice_e.
QUESTIONS ==
  << [id |-> "Cardio_1", system |-> "Cardio", answer |-> "A",
      options_map |-> [k \in {"A","B","C","D","E"} |->
          CASE k = "A" -> "x" [] k = "B" -> "y" [] k = "C" -> "c1"
            [] k = "D" -> "d1" [] OTHER -> ""]],
     [id |-> "Renal_1", system |-> "Renal", answer |-> "B",
      options_map |-> [k \in {"A","B","C","D","E"} |->
          CASE k = "A" -> "y" [] k = "B" -> "z" [] k = "C" -> "c2"
            [] k = "D" -> "d2" [] OTHER -> "e2"]] >>

SYSTEMS == {QUESTIONS[i].system : i \in 1..Len(QUESTIONS)}

\* selections offered to the two multiselects of the create page
SystemSelections == {{"All"}, {"Cardio"}}
FilterSelections == {{"All"}, {"Unused"}}

\* ---------------------------------------------------------------- helpers
Range(s) == {s[i] : i \in 1..Len(s)}

Max(a, b) == IF a >= b THEN a ELSE b

EmptyAnswers == [x \in {} |-> ""]

\* dict.get(key) with "" for None
Get(d, key) == IF key \in DOMAIN d THEN d[key] ELSE ""

\* q["options"]: the non-empty option texts in letter order
RECURSIVE OptionsFrom(_, _)
OptionsFrom(q, i) ==
  IF i > Len(Letters) THEN <<>>
  ELSE LET k == Letters[i]
           rest == OptionsFrom(q, i + 1)
       IN IF k \in DOMAIN q.options_map /\ q.options_map[k] # ""
          THEN <<q.options_map[k]>> \o rest ELSE rest

Options(q) == OptionsFrom(q, 1)

\* the loop of save_current_answer: first letter whose text equals the choice
RECURSIVE FirstLetter(_, _, _)
FirstLetter(q, text, i) ==
  IF i > Len(Letters) THEN ""
  ELSE IF Letters[i] \in DOMAIN q.options_map /\ q.options_map[Letters[i]] = text
       THEN Letters[i] ELSE FirstLetter(q, text, i + 1)

\* save_current_answer(test, q): the answers dict afterwards
KeepFirstAnswer(answers, q, choice) ==
  IF choice # "" /\ FirstLetter(q, choice, 1) # "" /\ q.id \notin DOMAIN answers
  THEN (q.id :> FirstLetter(q, choice, 1)) @@ answers
  ELSE answers

SaveComparingLetters(answers, q, choice) ==
  IF choice # "" /\ choice \in DOMAIN q.options_map
  THEN (q.id :> choice) @@ answers
  ELSE answers

save_current_answer(answers, q, choice) ==
  IF choice # "" /\ FirstLetter(q, choice, 1) # ""
  THEN (q.id :> FirstLetter(q, choice, 1)) @@ answers
  ELSE answers

calculate_total_test_time(num_questions) == num_questions * SecondsPerQuestion

\* test["questions"][test["index"]] with Python's negative indexing
CurrentQuestion(t) ==
  IF t.index >= 0 THEN t.questions[t.index + 1]
  ELSE t.questions[Len(t.questions) + t.index + 1]

\* the worksheets -------------------------------------------------------
EmptyProgress == [used |-> {}, correct |-> {}, incorrect |-> {}, marked |-> {}]

RowsOf(ws, username) == SelectSeq(ws, LAMBDA r : r.username = username)

\* position of the first row of a user, 0 when there is none
RECURSIVE FirstRow(_, _, _)
FirstRow(ws, username, i) ==
  IF i > Len(ws) THEN 0
  ELSE IF ws[i].username = username THEN i ELSE FirstRow(ws, username, i + 1)

\* the row is looked up and never created
GetUserProgressNoCreate(ws, username, fault) ==
  LET i == FirstRow(ws, username, 1)
  IN IF fault = "read_fail" \/ i = 0 THEN [prog |-> EmptyProgress, ws |-> ws]
     ELSE [prog |-> [used |-> ws[i].used, correct |-> ws[i].correct,
                     incorrect |-> ws[i].incorrect, marked |-> ws[i].marked],
           ws |-> ws]

\* get_user_progress: [prog, ws]; fault is "ok", "read_fail" or "append_fail"
get_user_progress(ws, username, fault) ==
  LET i == FirstRow(ws, username, 1)
      row == [username |-> username, used |-> {}, correct |-> {},
              incorrect |-> {}, marked |-> {}]
  IN IF fault = "read_fail" THEN [prog |-> EmptyProgress, ws |-> ws]
     ELSE IF i > 0
          THEN [prog |-> [used |-> ws[i].used, correct |-> ws[i].correct,
                          incorrect |-> ws[i].incorrect, marked |-> ws[i].marked],
                ws |-> ws]
          ELSE IF fault = "append_fail" THEN [prog |-> EmptyProgress, ws |-> ws]
               ELSE [prog |-> EmptyProgress, ws |-> Append(ws, row)]

\* a write that adds the sets of the run to the sets the row holds
SaveUserProgressMerging(ws, username, prog, fault) ==
  LET i == FirstRow(ws, username, 1)
  IN IF fault # "ok" \/ i = 0 THEN ws
     ELSE [ws EXCEPT ![i] = [username |-> ws[i].username,
                             used |-> ws[i].used \cup prog.used,
                             correct |-> ws[i].correct \cup prog.correct,
                             incorrect |-> ws[i].incorrect \cup prog.incorrect,
                             marked |-> ws[i].marked \cup prog.marked]]

\* save_user_progress: the worksheet afterwards; fault is "ok" or "fail"
save_user_progress(ws, username, prog, fault) ==
  LET i == FirstRow(ws, username, 1)
  IN IF fault # "ok" \/ i = 0 THEN ws
     ELSE [ws EXCEPT ![i] = [username |-> ws[i].username, used |-> prog.used,
                             correct |-> prog.correct, incorrect |-> prog.incorrect,
                             marked |-> prog.marked]]

\* the score loop of save_test_session
RECURSIVE Score(_, _, _)
Score(questions, answers, i) ==
  IF i > Len(questions) THEN 0
  ELSE (IF Get(answers, questions[i].id) = questions[i].answer THEN 1 ELSE 0)
       + Score(questions, answers, i + 1)

\* str(completed).lower()
BoolStr(b) == IF b THEN "true" ELSE "false"

\* datetime.now().isoformat(): ISO-8601 without an offset
isoformat(time) == [fmt |-> "iso", t |-> time]

StoredQuestions(questions) ==
  [i \in 1..Len(questions) |-> [id |-> questions[i].id, answer |-> questions[i].answer]]

TestRow(username, t, completed, time) ==
  [username |-> username, test_id |-> t.id, created |-> isoformat(time), mode |-> t.mode,
   total_questions |-> Len(t.questions), score |-> Score(t.questions, t.answers, 1),
   test_data |-> [answers |-> t.answers, questions |-> StoredQuestions(t.questions),
                  index |-> t.index, marked |-> t.marked],
   completed |-> BoolStr(completed)]

RECURSIVE FirstTestRow(_, _, _)
FirstTestRow(ws, id, i) ==
  IF i > Len(ws) THEN 0
  ELSE IF ws[i].test_id = id THEN i ELSE FirstTestRow(ws, id, i + 1)

\* save_test_session: the worksheet afterwards.  fault: "ok"; "find_fail"
\* (findall raises, the row is appended); "write_fail" (the first write raises,
\* the row is appended by the handler); "fail" (nothing is written).
save_test_session(ws, username, t, completed, time, fault) ==
  LET i == FirstTestRow(ws, t.id, 1)
      row == TestRow(username, t, completed, time)
  IN IF fault = "fail" THEN ws
     ELSE IF fault = "ok" /\ i > 0
          THEN [ws EXCEPT ![i] = [row EXCEPT !.username = ws[i].username]]
          ELSE Append(ws, row)

\* the completed column as get_user_tests reads it
ParseCompleted(v) == v \in {"true", "yes", "1", "completed"}

\* lines 134-144: True unless the record has the key "completed"; an empty
\* cell of a sheet that has the column is the key with the text ""
RowCompleted(r) ==
  IF "completed" \in DOMAIN r THEN ParseCompleted(r.completed) ELSE TRUE

\* get_sortable_date: the sort key of a created cell.  fmt "iso" is ISO-8601
\* without an offset; "isoZ" is ISO-8601 ending in Z or in an offset, for which
\* fromisoformat returns an aware datetime; "strptime" is one of the five
\* formats of line 183; any other text is not parsed and gets datetime.min
get_sortable_date(created) ==
  CASE created.fmt = "iso" -> [aware |-> FALSE, t |-> created.t]
    [] created.fmt = "isoZ" -> [aware |-> TRUE, t |-> created.t]
    [] created.fmt = "strptime" -> [aware |-> FALSE, t |-> created.t]
    [] OTHER -> [aware |-> FALSE, t |-> -1]

\* sorted() compares an aware with a naive datetime: TypeError
CompareRaises(tests) ==
  \E i, j \in 1..Len(tests) :
    get_sortable_date(tests[i].created).aware # get_sortable_date(tests[j].created).aware

\* sorted(user_tests, key=get_sortable_date, reverse=True): stable, newest first
RECURSIVE InsertNewestFirst(_, _)
InsertNewestFirst(sorted, r) ==
  IF sorted = <<>> THEN <<r>>
  ELSE IF get_sortable_date(Head(sorted).created).t >= get_sortable_date(r.created).t
       THEN <<Head(sorted)>> \o InsertNewestFirst(Tail(sorted), r)
       ELSE <<r>> \o sorted

RECURSIVE SortNewestFirst(_)
SortNewestFirst(s) ==
  IF s = <<>> THEN <<>>
  ELSE InsertNewestFirst(SortNewestFirst(SubSeq(s, 1, Len(s) - 1)), s[Len(s)])

\* get_user_tests; fault is "ok" or "fail"
get_user_tests(ws, username, fault) ==
  IF fault # "ok" THEN <<>>
  ELSE LET mine == RowsOf(ws, username)
           parsed == [i \in 1..Len(mine) |->
                        [test_id |-> mine[i].test_id, created |-> mine[i].created,
                         mode |-> mine[i].mode,
                         total_questions |-> mine[i].total_questions,
                         score |-> mine[i].score,
                         answers |-> mine[i].test_data.answers,
                         questions |-> mine[i].test_data.questions,
                         index |-> mine[i].test_data.index,
                         marked |-> mine[i].test_data.marked,
                         completed |-> RowCompleted(mine[i])]]
       IN IF CompareRaises(parsed) THEN <<>> ELSE SortNewestFirst(parsed)

IncompleteTests(tests) == SelectSeq(tests, LAMBDA t : ~t.completed)
CompletedTests(tests) == SelectSeq(tests, LAMBDA t : t.completed)

\* the restore loop of the Continue / Review buttons
PlaceholderOptions ==
  [k \in {"A","B","C","D"} |->
     CASE k = "A" -> "Option A" [] k = "B" -> "Option B"
       [] k = "C" -> "Option C" [] OTHER -> "Option D"]

RestoreQuestion(q_data) ==
  IF \E i \in 1..Len(QUESTIONS) : QUESTIONS[i].id = q_data.id
  THEN QUESTIONS[CHOOSE i \in 1..Len(QUESTIONS) :
                   /\ QUESTIONS[i].id = q_data.id
                   /\ \A j \in 1..(i - 1) : QUESTIONS[j].id # q_data.id]
  ELSE [id |-> q_data.id, system |-> "Unknown", answer |-> q_data.answer,
        options_map |-> PlaceholderOptions]

RestoreQuestions(stored) == [i \in 1..Len(stored) |-> RestoreQuestion(stored[i])]

\* "All" switches the filters off only when it is the whole selection
FilterPoolAllAlone(systems, filters, prog) ==
  LET bySystem == IF systems # {"All"}
                  THEN SelectSeq(QUESTIONS, LAMBDA q : q.system \in systems)
                  ELSE QUESTIONS
  IN IF filters # {"All"}
     THEN SelectSeq(bySystem, LAMBDA q :
            /\ "Unused" \in filters => q.id \notin prog.used
            /\ "Correct" \in filters => q.id \in prog.correct
            /\ "Incorrect" \in filters => q.id \in prog.incorrect
            /\ "Marked" \in filters => q.id \in prog.marked)
     ELSE bySystem

\* a question passes when it satisfies one of the selected status filters
FilterPoolAnyFilter(systems, filters, prog) ==
  LET bySystem == IF "All" \notin systems
                  THEN SelectSeq(QUESTIONS, LAMBDA q : q.system \in systems)
                  ELSE QUESTIONS
  IN IF "All" \notin filters /\ filters # {}
     THEN SelectSeq(bySystem, LAMBDA q :
            \/ "Unused" \in filters /\ q.id \notin prog.used
            \/ "Correct" \in filters /\ q.id \in prog.correct
            \/ "Incorrect" \in filters /\ q.id \in prog.incorrect
            \/ "Marked" \in filters /\ q.id \in prog.marked)
     ELSE bySystem

\* the pool of the create page
FilterPool(systems, filters, prog) ==
  LET bySystem == IF "All" \notin systems
                  THEN SelectSeq(QUESTIONS, LAMBDA q : q.system \in systems)
                  ELSE QUESTIONS
      unused == IF "All" \notin filters /\ "Unused" \in filters
                THEN SelectSeq(bySystem, LAMBDA q : q.id \notin prog.used)
                ELSE bySystem
      correct == IF "All" \notin filters /\ "Correct" \in filters
                 THEN SelectSeq(unused, LAMBDA q : q.id \in prog.correct)
                 ELSE unused
      incorrect == IF "All" \notin filters /\ "Incorrect" \in filters
                   THEN SelectSeq(correct, LAMBDA q : q.id \in prog.incorrect)
                   ELSE correct
  IN IF "All" \notin filters /\ "Marked" \in filters
     THEN SelectSeq(incorrect, LAMBDA q : q.id \in prog.marked)
     ELSE incorrect

SamplesWithRepeats(pool, k) ==
  {[i \in 1..k |-> pool[p[i]]] : p \in [1..k -> 1..Len(pool)]}

\* random.sample(pool, k): every ordering of k distinct positions of the pool
Samples(pool, k) ==
  {[i \in 1..k |-> pool[p[i]]] :
     p \in {f \in [1..k -> 1..Len(pool)] : \A a, b \in 1..k : a # b => f[a] # f[b]}}

\* the progress loop of the results page
RECURSIVE UpdateProgressKeepingOpposite(_, _, _, _)
UpdateProgressKeepingOpposite(prog, questions, answers, i) ==
  IF i > Len(questions) THEN prog
  ELSE LET qid == questions[i].id
           hit == Get(answers, qid) = questions[i].answer
           next == IF hit
                   THEN [prog EXCEPT !.used = @ \cup {qid}, !.correct = @ \cup {qid}]
                   ELSE [prog EXCEPT !.used = @ \cup {qid}, !.incorrect = @ \cup {qid}]
       IN UpdateProgressKeepingOpposite(next, questions, answers, i + 1)

RECURSIVE UpdateProgressAnsweredUsed(_, _, _, _)
UpdateProgressAnsweredUsed(prog, questions, answers, i) ==
  IF i > Len(questions) THEN prog
  ELSE LET qid == questions[i].id
           hit == Get(answers, qid) = questions[i].answer
           seen == IF qid \in DOMAIN answers THEN {qid} ELSE {}
           next == IF hit
                   THEN [prog EXCEPT !.used = @ \cup seen,
                                     !.correct = @ \cup {qid},
                                     !.incorrect = @ \ {qid}]
                   ELSE [prog EXCEPT !.used = @ \cup seen,
                                     !.incorrect = @ \cup {qid},
                                     !.correct = @ \ {qid}]
       IN UpdateProgressAnsweredUsed(next, questions, answers, i + 1)

RECURSIVE UpdateProgress(_, _, _, _)
UpdateProgress(prog, questions, answers, i) ==
  IF i > Len(questions) THEN prog
  ELSE LET qid == questions[i].id
           hit == Get(answers, qid) = questions[i].answer
           next == IF hit
                   THEN [prog EXCEPT !.used = @ \cup {qid},
                                     !.correct = @ \cup {qid},
                                     !.incorrect = @ \ {qid}]
                   ELSE [prog EXCEPT !.used = @ \cup {qid},
                                     !.incorrect = @ \cup {qid},
                                     !.correct = @ \ {qid}]
       IN UpdateProgress(next, questions, answers, i + 1)

\* a / b * 100 of Python as the whole percent; error stands for ZeroDivisionError
PercentOf(a, b) ==
  IF b = 0 THEN [error |-> TRUE, value |-> 0]
  ELSE [error |-> FALSE, value |-> (a * 100) \div b]

ZeroPercent == [error |-> FALSE, value |-> 0]

ScorePercentUnguarded(correct, total) == PercentOf(correct, total)

\* line 1298: the percentage of the results page
score_percent(correct, total) ==
  IF total > 0 THEN PercentOf(correct, total) ELSE ZeroPercent

\* lines 749-755: the question usage of the analytics tab
usage_percent(used_questions, total_questions) ==
  IF total_questions > 0 THEN PercentOf(used_questions, total_questions) ELSE ZeroPercent

\* lines 822-825: one point of the score trend of the analytics tab
trend_percentage(score, total_questions) ==
  IF total_questions > 0 THEN PercentOf(score, total_questions) ELSE ZeroPercent

\* the counter correct of the results page (lines 1281-1286)
RECURSIVE CountCorrect(_, _, _)
CountCorrect(questions, answers, i) ==
  IF i > Len(questions) THEN 0
  ELSE (IF Get(answers, questions[i].id) = questions[i].answer THEN 1 ELSE 0)
       + CountCorrect(questions, answers, i + 1)

\* the metrics of the results page (lines 1297-1307)
ResultsScreen(t) ==
  [feedback |-> FALSE, message |-> "",
   score |-> CountCorrect(t.questions, t.answers, 1),
   total |-> Len(t.questions),
   percent |-> score_percent(CountCorrect(t.questions, t.answers, 1), Len(t.questions))]

\* tests[-n:] (line 776)
LastTests(tests, n) ==
  IF Len(tests) <= n THEN tests ELSE SubSeq(tests, Len(tests) - n + 1, Len(tests))

\* lines 779-817: the created cell is parsed for the chart; a test whose cell
\* is in none of the formats gets no point
ChartDateParsed(created) == created.fmt \in {"iso", "isoZ", "strptime"}

\* the previous-tests page: the history of tab 1 (lines 492-719), the unused
\* count, the usage and the score trend of the analytics tab (lines 726-826);
\* trend_of names the test of every point of the trend
AnalyticsScreen(p, tests) ==
  LET completed_tests == CompletedTests(tests)
      plotted == SelectSeq(LastTests(completed_tests, TrendWindow),
                           LAMBDA t : ChartDateParsed(t.created))
  IN [feedback |-> FALSE, message |-> "",
      history |-> [i \in 1..Len(tests) |->
                     [test_id |-> tests[i].test_id, created |-> tests[i].created]],
      unused |-> Len(QUESTIONS) - Cardinality(p.used),
      usage |-> usage_percent(Cardinality(p.used), Len(QUESTIONS)),
      trend |-> [i \in 1..Len(plotted) |->
                   trend_percentage(plotted[i].score, plotted[i].total_questions)],
      trend_of |-> [i \in 1..Len(plotted) |-> plotted[i].test_id]]

\* ---------------------------------------------------------------- the data files
\* the keys load_all_questions reads with q[...] (lines 60-70)
RequiredFields ==
  {"system", "id", "choice_a", "choice_b", "choice_c", "choice_d", "correct_answer", "stem"}

\* a record of a data file: a dict from its keys to texts
SourceRecord(system, id, a, b, c, d, e, answer) ==
  [k \in RequiredFields \cup {"choice_e"} |->
     CASE k = "system" -> system [] k = "id" -> id
       [] k = "choice_a" -> a [] k = "choice_b" -> b [] k = "choice_c" -> c
       [] k = "choice_d" -> d [] k = "choice_e" -> e
       [] k = "correct_answer" -> answer [] OTHER -> "stem"]

\* del q[key]
Without(q, key) == [k \in DOMAIN q \ {key} |-> q[k]]

\* the files of the working directory, in the order of os.listdir()
DataFiles ==
  << <<SourceRecord("Cardio", "1", "x", "y", "c1", "d1", "", "A")>>,
     <<SourceRecord("Renal", "1", "y", "z", "c2", "d2", "e2", "B")>> >>

WellFormed(q) == RequiredFields \subseteq DOMAIN q

\* lines 60-70 for a record that has every key
Normalised(q) ==
  [id |-> q["system"] \o "_" \o q["id"], system |-> q["system"],
   answer |-> q["correct_answer"],
   options_map |-> [k \in {"A","B","C","D","E"} |->
       CASE k = "A" -> q["choice_a"] [] k = "B" -> q["choice_b"]
         [] k = "C" -> q["choice_c"] [] k = "D" -> q["choice_d"]
         [] OTHER -> Get(q, "choice_e")]]

\* the loop of lines 59-71 from record i on: a record without one of the keys
\* raises KeyError, which is caught outside the loop (line 72)
RECURSIVE LoadRecords(_, _, _)
LoadRecords(data, i, qs) ==
  IF i > Len(data) THEN [qs |-> qs, error |-> FALSE]
  ELSE IF WellFormed(data[i])
       THEN LoadRecords(data, i + 1, Append(qs, Normalised(data[i])))
       ELSE [qs |-> qs, error |-> TRUE]

\* the loop of lines 53-74 from file f on; errors are the files st.error names
RECURSIVE LoadFiles(_, _, _, _)
LoadFiles(files, f, qs, errors) ==
  IF f > Len(files) THEN [qs |-> qs, errors |-> errors]
  ELSE LET r == LoadRecords(files[f], 1, qs)
       IN LoadFiles(files, f + 1, r.qs, IF r.error THEN errors \cup {f} ELSE errors)

load_all_questions(files) == LoadFiles(files, 1, <<>>, {})

NotLoaded(files) == [files |-> files, done |-> FALSE, qs |-> <<>>, errors |-> {}]

Loaded(files) ==
  [files |-> files, done |-> TRUE, qs |-> load_all_questions(files).qs,
   errors |-> load_all_questions(files).errors]

\* ---------------------------------------------------------------- state
VARIABLES
  page, user, test, navigation_history,       \* st.session_state
  time_up, current_choice,
  radio,            \* value of the "Select answer" widget of the shown question
  screen,           \* what the last finished run displayed
  pending,          \* st.rerun() was called and the next run has not started
  prog,             \* the progress computed by the last run of the results page
  users_ws, progress_ws, tests_ws,            \* the three worksheets
  now,              \* time.time()
  drawn,            \* the uuid4 values drawn so far
  op,               \* the last run: its trigger, inputs and store faults
  load              \* the data files and what load_all_questions made of them

sessionVars == <<page, user, test, navigation_history, time_up, current_choice, radio, screen,
                 pending, prog>>
storeVars == <<users_ws, progress_ws, tests_ws>>
vars == <<sessionVars, storeVars, now, drawn, op, load>>

NoTest == [id |-> "", questions |-> <<>>, answers |-> EmptyAnswers, marked |-> {},
           index |-> 0, mode |-> "", start |-> -1, is_review |-> FALSE]

Blank == [feedback |-> FALSE, message |-> ""]
Message(m) == [feedback |-> FALSE, message |-> m]

NoFault == [users |-> "ok", progress_read |-> "ok", progress_save |-> "ok",
            test_save |-> "ok", tests_read |-> "ok"]

\* the outcomes of the store calls of one run: all succeed, or one call fails
Faults ==
  {NoFault}
  \cup {[NoFault EXCEPT !.users = x] : x \in {"fail", "progress_fail"}}
  \cup {[NoFault EXCEPT !.progress_read = x] : x \in {"read_fail", "append_fail"}}
  \cup {[NoFault EXCEPT !.progress_save = "fail"]}
  \cup {[NoFault EXCEPT !.test_save = x] : x \in {"find_fail", "write_fail", "fail"}}
  \cup {[NoFault EXCEPT !.tests_read = "fail"]}

Op(name, f) ==
  [name |-> name, num_q |-> 0, pool |-> {}, letter |-> "", ok |-> f = NoFault,
   systems |-> {}, filters |-> {}, filtered |-> <<>>, typed |-> <<>>]

\* lines 318-336: the defaults of st.session_state
SessionInit ==
  /\ page = "login"
  /\ user = ""
  /\ test = NoTest
  /\ navigation_history = <<>>
  /\ time_up = FALSE
  /\ current_choice = ""
  /\ radio = ""
  /\ screen = Blank
  /\ pending = FALSE
  /\ prog = EmptyProgress

Init ==
  /\ SessionInit
  /\ users_ws = <<>>
  /\ progress_ws = <<>>
  /\ tests_ws = <<>>
  /\ now = 0
  /\ drawn = {}
  /\ op = Op("Init", NoFault)
  /\ load = Loaded(DataFiles)

\* ---------------------------------------------------------------- login page
signup(u, p, f) ==
  /\ page = "login" /\ ~pending
  /\ IF f.users = "fail" \/ \E i \in 1..Len(users_ws) : users_ws[i].username = u
     THEN /\ screen' = Message("Username already exists")
          /\ UNCHANGED storeVars
     ELSE /\ users_ws' = Append(users_ws, [username |-> u, password_hash |-> hash_pw(p),
                                           created |-> now])
          /\ IF f.users = "progress_fail"
             THEN /\ progress_ws' = progress_ws
                  /\ screen' = Message("Username already exists")
             ELSE /\ progress_ws' = Append(progress_ws,
                       [username |-> u, used |-> {}, correct |-> {},
                        incorrect |-> {}, marked |-> {}])
                  /\ screen' = Message("Account created. Please login.")
          /\ UNCHANGED tests_ws
  /\ op' = Op("Nav", f)
  /\ UNCHANGED <<page, user, test, navigation_history, time_up, current_choice, radio, pending, prog, now, load, drawn>>

\* the Login button with a check of the username alone
LoginAnyPassword(u, p, f) ==
  /\ page = "login" /\ ~pending
  /\ IF f.users = "ok" /\ \E i \in 1..Len(users_ws) : users_ws[i].username = u
     THEN /\ user' = u
          /\ page' = "home"
          /\ navigation_history' = <<>>
          /\ screen' = Blank
     ELSE /\ screen' = Message("Invalid credentials")
          /\ UNCHANGED <<user, page, navigation_history>>
  /\ op' = [Op("Nav", f) EXCEPT !.typed = <<u, p>>]
  /\ UNCHANGED <<test, time_up, current_choice, radio,
                 pending, prog, storeVars, now, load, drawn>>

\* lines 399-406 with login() of lines 355-363: the Login button with the
\* username u and the password p in the text inputs
login(u, p, f) ==
  /\ page = "login" /\ ~pending
  /\ IF f.users = "ok" /\ \E i \in 1..Len(users_ws) :
          users_ws[i].username = u /\ users_ws[i].password_hash = hash_pw(p)
     THEN /\ user' = u
          /\ page' = "home"
          /\ navigation_history' = <<>>
          /\ screen' = Blank
     ELSE /\ screen' = Message("Invalid credentials")
          /\ UNCHANGED <<user, page, navigation_history>>
  /\ op' = [Op("Nav", f) EXCEPT !.typed = <<u, p>>]
  /\ UNCHANGED <<test, time_up, current_choice, radio,
                 pending, prog, storeVars, now, load, drawn>>

\* ---------------------------------------------------------------- home page
\* st.session_state.clear(); the next run restores the defaults
Logout ==
  /\ page = "home" /\ ~pending
  /\ page' = "login" /\ user' = "" /\ test' = NoTest /\ navigation_history' = <<>>
  /\ time_up' = FALSE
  /\ current_choice' = "" /\ radio' = "" /\ screen' = Blank /\ pending' = FALSE
  /\ prog' = EmptyProgress
  /\ op' = Op("Nav", NoFault)
  /\ UNCHANGED <<storeVars, now, load, drawn>>

\* navigate_to(target) from the home page
navigate_to(target) ==
  /\ page = "home" /\ ~pending
  /\ Len(navigation_history) < MaxHistory
  /\ navigation_history' = Append(navigation_history, page)
  /\ page' = target
  /\ pending' = TRUE
  /\ screen' = Blank
  /\ op' = Op("Nav", NoFault)
  /\ UNCHANGED <<user, test, time_up, current_choice,
                 radio, prog, storeVars, now, load, drawn>>

ResumedAtFirstQuestion(t) ==
  [id |-> t.test_id, questions |-> RestoreQuestions(t.questions), answers |-> t.answers,
   marked |-> {}, index |-> 0, mode |-> t.mode, start |-> now, is_review |-> FALSE]

\* the session built by the Continue buttons from a stored incomplete test
Resumed(t) ==
  [id |-> t.test_id, questions |-> RestoreQuestions(t.questions), answers |-> t.answers,
   marked |-> t.marked, index |-> t.index, mode |-> t.mode, start |-> now,
   is_review |-> FALSE]

\* the session built by "Review This Test"
Reviewed(t) ==
  [id |-> t.test_id, questions |-> RestoreQuestions(t.questions), answers |-> t.answers,
   marked |-> t.marked, index |-> 0, mode |-> t.mode, start |-> -1,
   is_review |-> TRUE]

ContinueEffect(t) ==
  IF RestoreQuestions(t.questions) # <<>>
  THEN /\ test' = Resumed(t)
       /\ page' = "test"
       /\ pending' = TRUE
       /\ radio' = ""
       /\ screen' = Blank
  ELSE UNCHANGED <<test, page, pending, radio, screen>>

OldestIncompleteTest(tests) ==
  IF IncompleteTests(tests) = <<>> THEN <<>>
  ELSE <<IncompleteTests(tests)[Len(IncompleteTests(tests))]>>

\* lines 421-423: incomplete_tests[0] if there is one, as a list of at most
\* one test
last_incomplete_test(tests) ==
  IF IncompleteTests(tests) = <<>> THEN <<>> ELSE <<IncompleteTests(tests)[1]>>

ContinueLastHome(f) ==
  /\ page = "home" /\ ~pending
  /\ LET offered == last_incomplete_test(get_user_tests(tests_ws, user, f.tests_read))
     IN /\ offered # <<>>
        /\ ContinueEffect(offered[1])
  /\ op' = Op("Continue", f)
  /\ UNCHANGED <<user, navigation_history, time_up,
                 current_choice, prog, storeVars, now, load, drawn>>

\* ---------------------------------------------------------------- previous_menu page
\* go_back(): the Back button of previous_menu and create, before any store call
go_back ==
  /\ page \in {"previous_menu", "create"} /\ ~pending
  /\ IF navigation_history # <<>>
     THEN /\ page' = navigation_history[Len(navigation_history)]
          /\ navigation_history' = SubSeq(navigation_history, 1, Len(navigation_history) - 1)
     ELSE /\ page' = "home"
          /\ UNCHANGED navigation_history
  /\ screen' = Blank
  /\ op' = Op("Nav", NoFault)
  /\ UNCHANGED <<user, test, time_up, current_choice,
                 radio, pending, prog, storeVars, now, load, drawn>>

\* "Continue This Test" of the i-th incomplete test (tab 1)
ContinueThis(i, f) ==
  /\ page = "previous_menu" /\ ~pending
  /\ LET incomplete == IncompleteTests(get_user_tests(tests_ws, user, f.tests_read))
     IN /\ i \in 1..Len(incomplete)
        /\ ContinueEffect(incomplete[i])
  /\ op' = Op("Continue", f)
  /\ UNCHANGED <<user, navigation_history, time_up,
                 current_choice, prog, storeVars, now, load, drawn>>

\* "Review This Test" of the i-th completed test (tab 1)
ReviewThis(i, f) ==
  /\ page = "previous_menu" /\ ~pending
  /\ LET completed == CompletedTests(get_user_tests(tests_ws, user, f.tests_read))
     IN /\ i \in 1..Len(completed)
        /\ IF RestoreQuestions(completed[i].questions) # <<>>
           THEN /\ test' = Reviewed(completed[i])
                /\ page' = "test_review"
                /\ radio' = ""
           ELSE UNCHANGED <<test, page, radio>>
  /\ screen' = Blank
  /\ op' = Op("ReviewThis", f)
  /\ UNCHANGED <<user, navigation_history, time_up,
                 current_choice, pending, prog, storeVars, now, load, drawn>>

\* "Continue Test" of tab 3; tab 2 has read the progress before
ContinueTab3(f) ==
  /\ page = "previous_menu" /\ ~pending
  /\ progress_ws' = get_user_progress(progress_ws, user, f.progress_read).ws
  /\ LET incomplete == IncompleteTests(get_user_tests(tests_ws, user, f.tests_read))
     IN /\ incomplete # <<>>
        /\ ContinueEffect(incomplete[1])
  /\ op' = Op("Continue", f)
  /\ UNCHANGED <<user, navigation_history, time_up,
                 current_choice, prog, users_ws, tests_ws, now, load, drawn>>

\* "Start New Test Instead" / "Create New Test" of tab 3
Tab3Create(f) ==
  /\ page = "previous_menu" /\ ~pending
  /\ progress_ws' = get_user_progress(progress_ws, user, f.progress_read).ws
  /\ page' = "create"
  /\ pending' = TRUE
  /\ screen' = Blank
  /\ op' = Op("Nav", f)
  /\ UNCHANGED <<user, test, navigation_history, time_up,
                 current_choice, radio, prog, users_ws, tests_ws, now, load, drawn>>

\* a run of previous_menu or create after st.rerun(): get_user_progress is called
RenderProgressPage(f) ==
  /\ page \in {"previous_menu", "create"} /\ pending
  /\ progress_ws' = get_user_progress(progress_ws, user, f.progress_read).ws
  /\ pending' = FALSE
  /\ screen' = IF page = "previous_menu"
               THEN AnalyticsScreen(get_user_progress(progress_ws, user, f.progress_read).prog,
                                    get_user_tests(tests_ws, user, f.tests_read))
               ELSE Blank
  /\ op' = Op("Render", f)
  /\ UNCHANGED <<page, user, test, navigation_history, time_up, current_choice, radio, prog, users_ws, tests_ws, now, load, drawn>>

\* ---------------------------------------------------------------- create page
Cancel(f) ==
  /\ page = "create" /\ ~pending
  /\ progress_ws' = get_user_progress(progress_ws, user, f.progress_read).ws
  /\ IF navigation_history # <<>>
     THEN /\ page' = navigation_history[Len(navigation_history)]
          /\ navigation_history' = SubSeq(navigation_history, 1, Len(navigation_history) - 1)
     ELSE /\ page' = "home"
          /\ UNCHANGED navigation_history
  /\ screen' = Blank
  /\ op' = Op("Nav", f)
  /\ UNCHANGED <<user, test, time_up, current_choice,
                 radio, pending, prog, users_ws, tests_ws, now, load, drawn>>

NewTest(id, selected, mode) ==
  [id |-> id, questions |-> selected, answers |-> EmptyAnswers,
   marked |-> {}, index |-> 0, mode |-> mode, start |-> now, is_review |-> FALSE]

\* "Start Test" when the pool is too small, capping the sample at the pool
StartCapped(id, num_q, mode, pool, f) ==
  \E selected \in Samples(pool, Len(pool)) :
    /\ id \notin drawn
    /\ test' = NewTest(id, selected, mode)
    /\ tests_ws' = save_test_session(tests_ws, user, test', FALSE, now, f.test_save)
    /\ Len(tests_ws') <= MaxRows
    /\ drawn' = drawn \cup {id}
    /\ page' = "test"
    /\ pending' = TRUE
    /\ radio' = ""
    /\ screen' = Blank

\* "Start Test" when the pool is too small: the error is shown, nothing else
StartRefused(id, num_q, mode, pool, f) ==
  /\ screen' = Message("Not enough questions available")
  /\ UNCHANGED <<test, tests_ws, page, pending, radio, drawn>>

\* "Start Test"; id is the value uuid4() returns
StartTest(id, num_q, mode, systems, filters, f) ==
  /\ page = "create" /\ ~pending
  /\ LET gp == get_user_progress(progress_ws, user, f.progress_read)
         pool == FilterPool(systems, filters, gp.prog)
     IN /\ progress_ws' = gp.ws
        /\ op' = [Op("StartTest", f) EXCEPT !.num_q = num_q,
                     !.pool = {pool[i].id : i \in 1..Len(pool)},
                     !.systems = systems, !.filters = filters, !.filtered = pool]
        /\ IF Len(pool) < num_q
           THEN StartRefused(id, num_q, mode, pool, f)
           ELSE \E selected \in Samples(pool, num_q) :
                  /\ id \notin drawn
                  /\ test' = NewTest(id, selected, mode)
                  /\ tests_ws' = save_test_session(tests_ws, user, test', FALSE, now,
                                                   f.test_save)
                  /\ Len(tests_ws') <= MaxRows
                  /\ drawn' = drawn \cup {id}
                  /\ page' = "test"
                  /\ pending' = TRUE
                  /\ radio' = ""
                  /\ screen' = Blank
  /\ UNCHANGED <<user, navigation_history, time_up,
                 current_choice, prog, users_ws, now, load>>

\* ---------------------------------------------------------------- test page
Active == test.mode = "Test" /\ ~test.is_review

\* update_timer(test): elapsed and remaining as this run computes them
Elapsed == now - test.start
Remaining == Max(0, calculate_total_test_time(Len(test.questions)) - Elapsed)

\* lines 1050-1052: this run of the test page ends the session
TimeIsUpLate ==
  Active /\ (time_up \/ (test.start >= 0
     /\ calculate_total_test_time(Len(test.questions)) - Elapsed < 0))

TimeIsUp == Active /\ (time_up \/ (test.start >= 0 /\ Remaining <= 0))

\* the stored answer of the shown question is not a key of its options_map
\* (line 1108 raises KeyError)
BadStoredAnswer ==
  LET q == CurrentQuestion(test)
  IN q.id \in DOMAIN test.answers /\ test.answers[q.id] \notin DOMAIN q.options_map

\* the value a newly created radio widget takes from index= (lines 1106-1115)
FreshRadio ==
  LET q == CurrentQuestion(test)
  IN IF q.id \in DOMAIN test.answers
        /\ q.options_map[test.answers[q.id]] \in Range(Options(q))
     THEN q.options_map[test.answers[q.id]] ELSE ""

\* lines 1118-1120 for the widget value choice
SyncedChoice(choice) == IF choice # "" THEN choice ELSE current_choice
SyncedAnswers(choice) ==
  IF choice # "" THEN save_current_answer(test.answers, CurrentQuestion(test), choice)
  ELSE test.answers

ShowsFeedbackInAnyMode(choice) == choice # ""

\* line 1167: the answer and the explanation are displayed below the options
ShowsFeedback(choice) == test.mode = "Reading" /\ choice # ""

\* the page has been rendered down to its buttons
TestPageShown ==
  /\ page = "test" /\ ~pending /\ ~TimeIsUp /\ screen.message # "KeyError"

\* lines 1050-1056: time is up; this run saves and goes to the results page
TestTimeUp(f) ==
  /\ page = "test" /\ TimeIsUp
  /\ time_up' = (time_up \/ (test.start >= 0 /\ Remaining <= 0))
  /\ test' = [test EXCEPT !.answers =
                save_current_answer(@, CurrentQuestion(test), current_choice)]
  /\ tests_ws' = save_test_session(tests_ws, user, test', TRUE, now, f.test_save)
  /\ Len(tests_ws') <= MaxRows
  /\ page' = "review"
  /\ pending' = TRUE
  /\ radio' = ""
  /\ screen' = Blank
  /\ op' = Op("TimeUp", f)
  /\ UNCHANGED <<user, navigation_history, current_choice, prog, users_ws, progress_ws,
                 now, load, drawn>>

\* a run of the test page with no button pressed: after st.rerun() (the radio
\* widget is new) or after the one-second sleep of Test mode
TestRun ==
  /\ page = "test" /\ ~TimeIsUp
  /\ pending \/ (Active /\ screen.message # "KeyError")
  /\ IF pending /\ BadStoredAnswer
     THEN /\ screen' = Message("KeyError")
          /\ UNCHANGED <<radio, current_choice, test>>
     ELSE LET choice == IF pending THEN FreshRadio ELSE radio
          IN /\ radio' = choice
             /\ current_choice' = SyncedChoice(choice)
             /\ test' = [test EXCEPT !.answers = SyncedAnswers(choice)]
             /\ screen' = [feedback |-> ShowsFeedback(choice), message |-> ""]
  /\ pending' = FALSE
  /\ op' = Op(IF pending THEN "Render" ELSE "Tick", NoFault)
  /\ UNCHANGED <<page, user, navigation_history, time_up, prog, storeVars, now, load,
                 drawn>>

\* the user selects the option with this letter in the radio widget
SelectAnswer(letter) ==
  /\ TestPageShown
  /\ LET q == CurrentQuestion(test)
     IN /\ letter \in DOMAIN q.options_map
        /\ q.options_map[letter] \in Range(Options(q))
        /\ q.options_map[letter] # radio
        /\ radio' = q.options_map[letter]
        /\ current_choice' = q.options_map[letter]
        /\ test' = [test EXCEPT !.answers =
                      save_current_answer(@, q, q.options_map[letter])]
  /\ screen' = [feedback |-> ShowsFeedback(CurrentQuestion(test).options_map[letter]),
                message |-> ""]
  /\ op' = [Op("Answer", NoFault) EXCEPT !.letter = letter]
  /\ UNCHANGED <<page, user, navigation_history, time_up, pending, prog, storeVars, now, load,
                 drawn>>

\* the session after lines 1118-1120 and the save_current_answer of a button
AfterSave ==
  [test EXCEPT !.answers =
     save_current_answer(SyncedAnswers(radio), CurrentQuestion(test),
                         SyncedChoice(radio))]

\* moving to another question: st.rerun() follows
MoveTo(i) ==
  /\ test' = [AfterSave EXCEPT !.index = i]
  /\ current_choice' = SyncedChoice(radio)
  /\ pending' = TRUE
  /\ radio' = ""
  /\ screen' = Blank

\* a press that finds its button disabled: the run draws the page, nothing else
NoPress ==
  /\ test' = [test EXCEPT !.answers = SyncedAnswers(radio)]
  /\ current_choice' = SyncedChoice(radio)
  /\ screen' = [feedback |-> ShowsFeedback(radio), message |-> ""]
  /\ UNCHANGED <<pending, radio>>

PreviousUnguarded ==
  /\ TestPageShown
  /\ MoveTo(test.index - 1)
  /\ op' = Op("Previous", NoFault)
  /\ UNCHANGED <<page, user, navigation_history, time_up, prog, storeVars, now, load,
                 drawn>>

Previous ==
  /\ TestPageShown
  /\ IF test.index = 0 THEN NoPress ELSE MoveTo(test.index - 1)
  /\ op' = Op("Previous", NoFault)
  /\ UNCHANGED <<page, user, navigation_history, time_up, prog, storeVars, now, load,
                 drawn>>

NextAlwaysMoves ==
  /\ TestPageShown
  /\ MoveTo(test.index + 1)
  /\ page' = page
  /\ op' = Op("Next", NoFault)
  /\ UNCHANGED <<user, navigation_history, time_up, prog, storeVars, now, load, drawn>>

\* "Next" / "Finish"
NextQuestion ==
  /\ TestPageShown
  /\ IF test.index < Len(test.questions) - 1
     THEN /\ MoveTo(test.index + 1)
          /\ page' = page
     ELSE /\ MoveTo(test.index)
          /\ page' = "review"
  /\ op' = Op("Next", NoFault)
  /\ UNCHANGED <<user, navigation_history, time_up, prog, storeVars, now, load, drawn>>

MarkOnly(marked, qid) == marked \cup {qid}

\* lines 1143-1149: remove the id when it is marked, add it otherwise
ToggledMarked(marked, qid) ==
  IF qid \in marked THEN marked \ {qid} ELSE marked \cup {qid}

\* "Mark" / "Unmark"
ToggleMark ==
  /\ TestPageShown
  /\ LET qid == CurrentQuestion(test).id
     IN test' = [test EXCEPT !.answers = SyncedAnswers(radio),
                             !.marked = ToggledMarked(@, qid)]
  /\ current_choice' = SyncedChoice(radio)
  /\ pending' = TRUE
  /\ radio' = ""
  /\ screen' = Blank
  /\ op' = Op("ToggleMark", NoFault)
  /\ UNCHANGED <<page, user, navigation_history, time_up, prog, storeVars, now, load,
                 drawn>>

\* the "Jump to" selectbox: selected_q is one of 1..len(questions)
JumpTo(selected_q) ==
  /\ TestPageShown
  /\ selected_q \in 1..Len(test.questions)
  /\ selected_q - 1 # test.index
  /\ MoveTo(selected_q - 1)
  /\ op' = Op("JumpTo", NoFault)
  /\ UNCHANGED <<page, user, navigation_history, time_up, prog, storeVars, now, load,
                 drawn>>

\* End & Save that also writes the marks of the session to the progress row
EndAndSavePersistingMarks(f) ==
  /\ page = "test" /\ ~pending /\ ~TimeIsUp
  /\ test' = [test EXCEPT !.answers =
                save_current_answer(@, CurrentQuestion(test), current_choice)]
  /\ tests_ws' = save_test_session(tests_ws, user, test', FALSE, now, f.test_save)
  /\ Len(tests_ws') <= MaxRows
  /\ progress_ws' =
       LET read == get_user_progress(progress_ws, user, f.progress_read)
       IN save_user_progress(read.ws, user,
                             [read.prog EXCEPT !.marked = @ \cup test.marked],
                             f.progress_save)
  /\ page' = "home"
  /\ radio' = ""
  /\ screen' = Blank
  /\ op' = Op("EndAndSave", f)
  /\ UNCHANGED <<user, navigation_history, time_up, current_choice, pending, prog,
                 users_ws, now, load, drawn>>

\* "End & Save": the button is above the radio widget
EndAndSave(f) ==
  /\ page = "test" /\ ~pending /\ ~TimeIsUp
  /\ test' = [test EXCEPT !.answers =
                save_current_answer(@, CurrentQuestion(test), current_choice)]
  /\ tests_ws' = save_test_session(tests_ws, user, test', FALSE, now, f.test_save)
  /\ Len(tests_ws') <= MaxRows
  /\ page' = "home"
  /\ radio' = ""
  /\ screen' = Blank
  /\ op' = Op("EndAndSave", f)
  /\ UNCHANGED <<user, navigation_history, time_up, current_choice, pending, prog,
                 users_ws, progress_ws, now, load, drawn>>

\* ---------------------------------------------------------------- results page
\* a completion that flips the marks of the session in the stored set instead
\* of adding them
CompletedProgressTogglingMarks(f) ==
  LET read == get_user_progress(progress_ws, user, f.progress_read).prog
      counted == UpdateProgress(read, test.questions, test.answers, 1)
  IN [counted EXCEPT !.marked = (@ \ test.marked) \cup (test.marked \ @)]

\* lines 1277-1295: the progress of the user after this session
CompletedProgress(f) ==
  LET read == get_user_progress(progress_ws, user, f.progress_read).prog
      counted == UpdateProgress(read, test.questions, test.answers, 1)
  IN [counted EXCEPT !.marked = @ \cup test.marked]

\* lines 1277-1334: every run of the results page computes the progress and
\* saves the progress and the Test Record; prog is a local of that run
ReviewTop(f) ==
  /\ progress_ws' = save_user_progress(
                      get_user_progress(progress_ws, user, f.progress_read).ws,
                      user, CompletedProgress(f), f.progress_save)
  /\ tests_ws' = save_test_session(tests_ws, user, test, TRUE, now, f.test_save)
  /\ Len(tests_ws') <= MaxRows

RenderReview(f) ==
  /\ page = "review" /\ pending
  /\ ReviewTop(f)
  /\ prog' = CompletedProgress(f)
  /\ pending' = FALSE
  /\ screen' = ResultsScreen(test)
  /\ op' = Op("Render", f)
  /\ UNCHANGED <<page, user, test, navigation_history, time_up, current_choice, radio, users_ws, now, load, drawn>>

\* "Home" of the results page
ReviewHome(f) ==
  /\ page = "review" /\ ~pending
  /\ ReviewTop(f)
  /\ prog' = EmptyProgress
  /\ page' = "home"
  /\ screen' = Blank
  /\ op' = Op("Nav", f)
  /\ UNCHANGED <<user, test, navigation_history, time_up, current_choice, radio, pending, users_ws, now, load, drawn>>

\* "Analytics" of the results page
ReviewAnalytics(f) ==
  /\ page = "review" /\ ~pending
  /\ ReviewTop(f)
  /\ prog' = EmptyProgress
  /\ page' = "previous_menu"
  /\ pending' = TRUE
  /\ screen' = Blank
  /\ op' = Op("Nav", f)
  /\ UNCHANGED <<user, test, navigation_history, time_up, current_choice, radio, users_ws, now, load, drawn>>

\* "Review Test" of the results page
ReviewTest(f) ==
  /\ page = "review" /\ ~pending
  /\ ReviewTop(f)
  /\ prog' = EmptyProgress
  /\ test' = [test EXCEPT !.is_review = TRUE, !.index = 0]
  /\ page' = "test_review"
  /\ screen' = Blank
  /\ op' = Op("ReviewTest", f)
  /\ UNCHANGED <<user, navigation_history, time_up,
                 current_choice, radio, pending, users_ws, now, load, drawn>>

\* ---------------------------------------------------------------- test_review page
ReviewPrevious ==
  /\ page = "test_review" /\ ~pending
  /\ IF test.index = 0 THEN test' = test
     ELSE test' = [test EXCEPT !.index = @ - 1]
  /\ op' = Op("ReviewPrevious", NoFault)
  /\ UNCHANGED <<page, user, navigation_history, time_up,
                 current_choice, radio, screen, pending, prog, storeVars, now, load, drawn>>

\* Next as on the test page: the run records current_choice before it moves
ReviewNextRecording ==
  /\ page = "test_review" /\ ~pending
  /\ IF test.index = Len(test.questions) - 1 THEN test' = test
     ELSE test' = [test EXCEPT !.index = @ + 1,
                               !.answers = save_current_answer(@, CurrentQuestion(test),
                                                               current_choice)]
  /\ op' = Op("ReviewNext", NoFault)
  /\ UNCHANGED <<page, user, navigation_history, time_up,
                 current_choice, radio, screen, pending, prog, storeVars, now, load, drawn>>

ReviewNext ==
  /\ page = "test_review" /\ ~pending
  /\ IF test.index = Len(test.questions) - 1 THEN test' = test
     ELSE test' = [test EXCEPT !.index = @ + 1]
  /\ op' = Op("ReviewNext", NoFault)
  /\ UNCHANGED <<page, user, navigation_history, time_up,
                 current_choice, radio, screen, pending, prog, storeVars, now, load, drawn>>

TestReviewHome ==
  /\ page = "test_review" /\ ~pending
  /\ page' = "home"
  /\ op' = Op("Nav", NoFault)
  /\ UNCHANGED <<user, test, navigation_history, time_up,
                 current_choice, radio, screen, pending, prog, storeVars, now, load, drawn>>

\* ---------------------------------------------------------------- the clock
AdvanceTime(d) ==
  /\ now + d <= MaxTime
  /\ now' = now + d
  /\ UNCHANGED <<sessionVars, storeVars, drawn, op, load>>

\* ---------------------------------------------------------------- specification
\* F: the outcomes of the store calls of a run; ids: the values uuid4() returns
AccountStep(F) ==
  \/ \E u \in Usernames, p \in Passwords, f \in F : signup(u, p, f)
  \/ \E u \in Usernames, p \in LoginPasswords, f \in F : login(u, p, f)
  \/ Logout

MenuStep(F) ==
  \/ \E target \in {"create", "previous_menu"} : navigate_to(target)
  \/ \E f \in F : ContinueLastHome(f)
  \/ go_back
  \/ \E i \in 1..MaxRows, f \in F : ContinueThis(i, f)
  \/ \E i \in 1..MaxRows, f \in F : ReviewThis(i, f)
  \/ \E f \in F : ContinueTab3(f)
  \/ \E f \in F : Tab3Create(f)
  \/ \E f \in F : RenderProgressPage(f)
  \/ \E f \in F : Cancel(f)

CreateStep(F, ids, modes) ==
  \E id \in ids, num_q \in 1..MaxNumQ, mode \in modes, systems \in SystemSelections,
     filters \in FilterSelections, f \in F :
    StartTest(id, num_q, mode, systems, filters, f)

TestStep(F) ==
  \/ \E f \in F : TestTimeUp(f)
  \/ TestRun
  \/ \E letter \in PickLetters : SelectAnswer(letter)
  \/ Previous
  \/ NextQuestion
  \/ \E selected_q \in 1..MaxNumQ : JumpTo(selected_q)
  \/ \E f \in F : EndAndSave(f)

ResultStep(F) ==
  \/ \E f \in F : RenderReview(f)
  \/ \E f \in F : ReviewHome(f)
  \/ \E f \in F : ReviewAnalytics(f)
  \/ \E f \in F : ReviewTest(f)

ReviewModeStep ==
  \/ ReviewPrevious
  \/ ReviewNext
  \/ TestReviewHome

ClockStep == \E d \in TimeSteps : AdvanceTime(d)

\* one session of a user, every store call succeeds
Next ==
  \/ AccountStep({NoFault})
  \/ MenuStep({NoFault})
  \/ CreateStep({NoFault}, {"t1"}, Modes)
  \/ TestStep({NoFault})
  \/ ResultStep({NoFault})
  \/ ReviewModeStep
  \/ ClockStep

Spec == Init /\ [][Next]_vars

\* the failures of the users and progress worksheets
ProgressFaults ==
  {f \in Faults : f.test_save = "ok" /\ f.tests_read = "ok"}

\* signups and Reading-mode tests taken one after the other to their results;
\* in every run one call to the users or progress worksheet may fail
NextProgress ==
  \/ \E u \in Usernames, p \in Passwords, f \in ProgressFaults : signup(u, p, f)
  \/ \E u \in Usernames, p \in Passwords, f \in ProgressFaults : login(u, p, f)
  \/ navigate_to("create")
  \/ \E f \in ProgressFaults : RenderProgressPage(f)
  \/ CreateStep(ProgressFaults, {"t1", "t2"}, {"Reading"})
  \/ TestRun
  \/ \E letter \in PickLetters : SelectAnswer(letter)
  \/ Previous
  \/ NextQuestion
  \/ \E f \in ProgressFaults : RenderReview(f)
  \/ \E f \in ProgressFaults : ReviewAnalytics(f)
  \/ \E f \in ProgressFaults : Tab3Create(f)

SpecProgress == Init /\ [][NextProgress]_vars

\* one session answered, marked, ended with End & Save and resumed from the
\* home page or from the previous-tests page; every store call succeeds
NextResume ==
  \/ \E u \in Usernames, p \in Passwords : signup(u, p, NoFault)
  \/ \E u \in Usernames, p \in Passwords : login(u, p, NoFault)
  \/ Logout
  \/ \E target \in {"create", "previous_menu"} : navigate_to(target)
  \/ go_back
  \/ RenderProgressPage(NoFault)
  \/ CreateStep({NoFault}, {"t1"}, Modes)
  \/ TestRun
  \/ \E letter \in PickLetters : SelectAnswer(letter)
  \/ NextQuestion
  \/ ToggleMark
  \/ EndAndSave(NoFault)
  \/ ContinueLastHome(NoFault)
  \/ \E i \in 1..MaxRows : ContinueThis(i, NoFault)
  \/ ContinueTab3(NoFault)

SpecResume == Init /\ [][NextResume]_vars

\* two sessions started at different times, ended with End & Save and resumed
\* from the home page or from the list of incomplete tests
NextHistory ==
  \/ \E u \in Usernames, p \in Passwords : signup(u, p, NoFault)
  \/ \E u \in Usernames, p \in Passwords : login(u, p, NoFault)
  \/ Logout
  \/ \E target \in {"create", "previous_menu"} : navigate_to(target)
  \/ RenderProgressPage(NoFault)
  \/ CreateStep({NoFault}, {"t1", "t2"}, {"Reading"})
  \/ TestRun
  \/ EndAndSave(NoFault)
  \/ ContinueLastHome(NoFault)
  \/ \E i \in 1..MaxRows : ContinueThis(i, NoFault)
  \/ ClockStep

SpecHistory == Init /\ [][NextHistory]_vars

\* a question of the data files of an earlier start of the program, no longer
\* among the files load_all_questions reads
RemovedQuestion ==
  [id |-> "Old_1", system |-> "Old", answer |-> "E",
   options_map |-> [k \in {"A","B","C","D","E"} |->
       CASE k = "A" -> "o1" [] k = "B" -> "o2" [] k = "C" -> "o3"
         [] k = "D" -> "o4" [] OTHER -> "o5"]]

\* the sessions an earlier start of the program may have saved over that
\* question: it is unanswered or answered with any of its five letters
StaleSessions ==
  {[id |-> "t0", questions |-> <<RemovedQuestion, QUESTIONS[1]>>, answers |-> a,
    marked |-> {}, index |-> i, mode |-> "Reading", start |-> 0, is_review |-> FALSE] :
     a \in {EmptyAnswers} \cup {(RemovedQuestion.id :> l) : l \in Range(Letters)},
     i \in 0..1}

\* the program starts with an account and one Test Record, incomplete or
\* completed, written before the question files changed
InitStale ==
  /\ SessionInit
  /\ users_ws = <<[username |-> "u1", password_hash |-> hash_pw("p1"), created |-> 0]>>
  /\ progress_ws = <<[username |-> "u1", used |-> {}, correct |-> {}, incorrect |-> {},
                      marked |-> {}]>>
  /\ \E s \in StaleSessions, completed \in BOOLEAN :
       tests_ws = <<TestRow("u1", s, completed, 0)>>
  /\ now = 0
  /\ drawn = {"t0"}
  /\ op = Op("Init", NoFault)
  /\ load = Loaded(DataFiles)

\* the stored session is resumed or reviewed, answered, navigated and finished
NextStale ==
  \/ \E u \in Usernames, p \in Passwords : login(u, p, NoFault)
  \/ navigate_to("previous_menu")
  \/ RenderProgressPage(NoFault)
  \/ ContinueLastHome(NoFault)
  \/ \E i \in 1..MaxRows : ContinueThis(i, NoFault)
  \/ \E i \in 1..MaxRows : ReviewThis(i, NoFault)
  \/ TestRun
  \/ \E letter \in PickLetters : SelectAnswer(letter)
  \/ Previous
  \/ NextQuestion
  \/ EndAndSave(NoFault)
  \/ RenderReview(NoFault)
  \/ ReviewHome(NoFault)
  \/ ReviewPrevious
  \/ ReviewNext
  \/ TestReviewHome

SpecStale == InitStale /\ [][NextStale]_vars

\* the created cells the tests worksheet may hold: written by the program, or
\* by another writer in another format
StoredStamps ==
  {[fmt |-> k, t |-> time] : k \in {"iso", "isoZ", "strptime", "text"}, time \in {0, MaxTime}}

\* the completed one-question session the listed records were saved from
ListedSession(id) ==
  [id |-> id, questions |-> <<QUESTIONS[1]>>, answers |-> EmptyAnswers, marked |-> {},
   index |-> 0, mode |-> "Reading", start |-> 0, is_review |-> FALSE]

\* an account and up to two Test Records of it, with any created cells
InitListing ==
  /\ SessionInit
  /\ users_ws = <<[username |-> "u1", password_hash |-> hash_pw("p1"), created |-> 0]>>
  /\ progress_ws = <<[username |-> "u1", used |-> {}, correct |-> {}, incorrect |-> {},
                      marked |-> {}]>>
  /\ \E a, b \in StoredStamps, n \in 0..2 :
       tests_ws = SubSeq(<<[TestRow("u1", ListedSession("t1"), TRUE, 0) EXCEPT !.created = a],
                           [TestRow("u1", ListedSession("t2"), TRUE, 0) EXCEPT !.created = b]>>,
                         1, n)
  /\ now = 0
  /\ drawn = {"t1", "t2"}
  /\ op = Op("Init", NoFault)
  /\ load = Loaded(DataFiles)

\* the user logs in and opens the previous-tests page
NextListing ==
  \/ \E u \in Usernames, p \in Passwords : login(u, p, NoFault)
  \/ navigate_to("previous_menu")
  \/ RenderProgressPage(NoFault)
  \/ go_back

SpecListing == InitListing /\ [][NextListing]_vars

\* every selection the two multiselects of the create page can hold
AnySystems == SUBSET ({"All"} \cup SYSTEMS)
AnyFilters == SUBSET {"All", "Unused", "Correct", "Incorrect", "Marked"}

\* the progress rows completed tests leave behind: a question is unused, or
\* used and either correct or incorrect, and only used questions are marked
ProgressRows ==
  LET ids == {QUESTIONS[i].id : i \in 1..Len(QUESTIONS)}
  IN {[username |-> "u1", used |-> u, correct |-> c, incorrect |-> u \ c, marked |-> m] :
        u \in SUBSET ids, c \in SUBSET ids, m \in SUBSET ids}

\* an account whose progress row holds any such sets
InitPool ==
  /\ SessionInit
  /\ users_ws = <<[username |-> "u1", password_hash |-> hash_pw("p1"), created |-> 0]>>
  /\ \E r \in ProgressRows :
       /\ r.correct \subseteq r.used /\ r.marked \subseteq r.used
       /\ progress_ws = <<r>>
  /\ tests_ws = <<>>
  /\ now = 0
  /\ drawn = {}
  /\ op = Op("Init", NoFault)
  /\ load = Loaded(DataFiles)

\* the user logs in, opens the create page and presses Start Test for one
\* question with any selection of systems and filters
NextPool ==
  \/ \E u \in Usernames, p \in Passwords : login(u, p, NoFault)
  \/ navigate_to("create")
  \/ RenderProgressPage(NoFault)
  \/ \E systems \in AnySystems, filters \in AnyFilters :
       StartTest("t1", 1, "Reading", systems, filters, NoFault)

SpecPool == InitPool /\ [][NextPool]_vars

\* the failures of save_test_session
SaveFaults ==
  {f \in Faults : f.users = "ok" /\ f.progress_read = "ok" /\ f.progress_save = "ok"
                   /\ f.tests_read = "ok"}

\* one Reading-mode session created, saved, completed and resumed; in every
\* run that saves the session the call to the tests worksheet may fail
NextSave ==
  \/ \E u \in Usernames, p \in Passwords : signup(u, p, NoFault)
  \/ \E u \in Usernames, p \in Passwords : login(u, p, NoFault)
  \/ navigate_to("create")
  \/ RenderProgressPage(NoFault)
  \/ CreateStep(SaveFaults, {"t1"}, {"Reading"})
  \/ TestRun
  \/ \E letter \in PickLetters : SelectAnswer(letter)
  \/ NextQuestion
  \/ \E f \in SaveFaults : EndAndSave(f)
  \/ \E f \in SaveFaults : RenderReview(f)
  \/ \E f \in SaveFaults : ReviewHome(f)
  \/ ContinueLastHome(NoFault)

SpecSave == Init /\ [][NextSave]_vars

\* the sessions the results computation is applied to: every list of distinct
\* questions, the empty list included, with every choice of recorded answers
ScoreSessions ==
  {[id |-> "t1", questions |-> qs, answers |-> a, marked |-> {}, index |-> 0,
    mode |-> m, start |-> 0, is_review |-> FALSE] :
     qs \in UNION {Samples(QUESTIONS, k) : k \in 0..Len(QUESTIONS)},
     a \in UNION {[ids -> PickLetters] :
                    ids \in SUBSET {QUESTIONS[i].id : i \in 1..Len(QUESTIONS)}},
     m \in Modes}

\* a logged-in user whose session has just been sent to the results page
InitScore ==
  /\ page = "review" /\ pending = TRUE
  /\ user = "u1"
  /\ test \in {t \in ScoreSessions :
                 DOMAIN t.answers \subseteq {t.questions[i].id : i \in 1..Len(t.questions)}}
  /\ navigation_history = <<>>
  /\ time_up = FALSE /\ current_choice = "" /\ radio = "" /\ screen = Blank
  /\ prog = EmptyProgress
  /\ users_ws = <<[username |-> "u1", password_hash |-> hash_pw("p1"), created |-> 0]>>
  /\ progress_ws = <<[username |-> "u1", used |-> {}, correct |-> {}, incorrect |-> {},
                      marked |-> {}]>>
  /\ tests_ws = <<>>
  /\ now = 0
  /\ drawn = {"t1"}
  /\ op = Op("Init", NoFault)
  /\ load = Loaded(DataFiles)

\* the results page and, from it, the analytics tab
NextScore ==
  \/ RenderReview(NoFault)
  \/ ReviewAnalytics(NoFault)
  \/ RenderProgressPage(NoFault)

SpecScore == InitScore /\ [][NextScore]_vars

\* the rows other accounts have in the progress worksheet
OtherProgressRows ==
  {[r EXCEPT !.username = "u0"] : r \in {p \in ProgressRows : p.marked \subseteq p.used
                                                             /\ p.correct \subseteq p.used}}

\* an account whose signup wrote the users row and could not write the
\* progress row (lines 371-372), before or after the row of another account
InitFirstRead ==
  /\ SessionInit
  /\ users_ws = <<[username |-> "u0", password_hash |-> hash_pw("p1"), created |-> 0],
                  [username |-> "u1", password_hash |-> hash_pw("p1"), created |-> 0]>>
  /\ \E others \in {<<>>} \cup {<<r>> : r \in OtherProgressRows} : progress_ws = others
  /\ tests_ws = <<>>
  /\ now = 0
  /\ drawn = {}
  /\ op = Op("Init", NoFault)
  /\ load = Loaded(DataFiles)

\* the user logs in and opens the pages that read the progress
NextFirstRead ==
  \/ \E u \in Usernames, p \in Passwords : login(u, p, NoFault)
  \/ \E target \in {"create", "previous_menu"} : navigate_to(target)
  \/ RenderProgressPage(NoFault)
  \/ go_back
  \/ Cancel(NoFault)
  \/ Tab3Create(NoFault)

SpecFirstRead == InitFirstRead /\ [][NextFirstRead]_vars

\* one session of a user from signup to its results, with every operation of
\* the test page, End & Save and resume; every store call succeeds
NextFrame ==
  \/ \E u \in Usernames, p \in Passwords : signup(u, p, NoFault)
  \/ \E u \in Usernames, p \in Passwords : login(u, p, NoFault)
  \/ navigate_to("create")
  \/ RenderProgressPage(NoFault)
  \/ CreateStep({NoFault}, {"t1"}, Modes)
  \/ TestTimeUp(NoFault)
  \/ TestRun
  \/ \E letter \in PickLetters : SelectAnswer(letter)
  \/ Previous
  \/ NextQuestion
  \/ \E selected_q \in 1..MaxNumQ : JumpTo(selected_q)
  \/ ToggleMark
  \/ EndAndSave(NoFault)
  \/ ContinueLastHome(NoFault)
  \/ RenderReview(NoFault)
  \/ ReviewHome(NoFault)
  \/ ClockStep

SpecFrame == Init /\ [][NextFrame]_vars

\* the session ids of the stored history
HistoryIds == <<"h01", "h02", "h03", "h04", "h05", "h06", "h07", "h08", "h09", "h10",
                "h11", "h12">>

\* n Test Records of one-question sessions, created one second apart, the
\* oldest or the newest in the first row; all are completed but the one in
\* row open (none when open = 0)
StoredHistory(n, newest_first, open) ==
  [k \in 1..n |->
     TestRow("u1", ListedSession(HistoryIds[k]), k # open,
             IF newest_first THEN n - k ELSE k - 1)]

\* an account with such a history
InitTrend ==
  /\ SessionInit
  /\ users_ws = <<[username |-> "u1", password_hash |-> hash_pw("p1"), created |-> 0]>>
  /\ progress_ws = <<[username |-> "u1", used |-> {}, correct |-> {}, incorrect |-> {},
                      marked |-> {}]>>
  /\ \E n \in 0..MaxStored, newest_first \in BOOLEAN :
       /\ n <= Len(HistoryIds)
       /\ \E open \in 0..n : tests_ws = StoredHistory(n, newest_first, open)
  /\ now = 0
  /\ drawn = Range(HistoryIds)
  /\ op = Op("Init", NoFault)
  /\ load = Loaded(DataFiles)

\* the user logs in and opens the previous-tests page
NextTrend ==
  \/ \E u \in Usernames, p \in Passwords : login(u, p, NoFault)
  \/ navigate_to("previous_menu")
  \/ RenderProgressPage(NoFault)
  \/ go_back

SpecTrend == InitTrend /\ [][NextTrend]_vars

\* lines 1278-1295 for a session t and the progress read
ProgressAfter(read, t) ==
  [UpdateProgress(read, t.questions, t.answers, 1) EXCEPT !.marked = @ \cup t.marked]

\* line 1278 and the loop after it: the first part of a run of the results
\* page, up to the store calls of lines 1333-1334; prog is the local of the run
ReviewRead(f) ==
  /\ page = "review" /\ pending /\ op.name # "ReadProgress"
  /\ progress_ws' = get_user_progress(progress_ws, user, f.progress_read).ws
  /\ prog' = CompletedProgress(f)
  /\ op' = Op("ReadProgress", f)
  /\ UNCHANGED <<page, user, test, navigation_history, time_up, current_choice, radio,
                 screen, pending, users_ws, tests_ws, now, load, drawn>>

\* lines 1333-1334 and the rest of that run
ReviewWrite(f) ==
  /\ page = "review" /\ pending /\ op.name = "ReadProgress"
  /\ progress_ws' = save_user_progress(progress_ws, user, prog, f.progress_save)
  /\ tests_ws' = save_test_session(tests_ws, user, test, TRUE, now, f.test_save)
  /\ Len(tests_ws') <= MaxRows
  /\ pending' = FALSE
  /\ screen' = ResultsScreen(test)
  /\ op' = Op("Render", f)
  /\ UNCHANGED <<page, user, test, navigation_history, time_up, current_choice, radio,
                 prog, users_ws, now, load, drawn>>

\* the sessions the same user finishes in a second browser tab
OtherSessions ==
  {[id |-> "o1", questions |-> qs, answers |-> a, marked |-> {}, index |-> 0,
    mode |-> "Reading", start |-> 0, is_review |-> FALSE] :
     qs \in Samples(QUESTIONS, 1),
     a \in {EmptyAnswers} \cup {(QUESTIONS[i].id :> l) : i \in 1..Len(QUESTIONS),
                                                          l \in PickLetters}}

\* a run of the results page in the second tab for its session t: it reads,
\* updates and writes the progress, then writes its Test Record
OtherTabCompletes(t) ==
  /\ user # "" /\ page = "review"
  /\ DOMAIN t.answers \subseteq {t.questions[i].id : i \in 1..Len(t.questions)}
  /\ LET gp == get_user_progress(progress_ws, user, "ok")
     IN progress_ws' = save_user_progress(gp.ws, user, ProgressAfter(gp.prog, t), "ok")
  /\ tests_ws' = save_test_session(tests_ws, user, t, TRUE, now, "ok")
  /\ Len(tests_ws') <= MaxRows
  /\ UNCHANGED <<sessionVars, users_ws, now, load, drawn, op>>

\* the run of the results page of one tab, between whose read and write of
\* the progress the run of the other tab may take place
NextRace ==
  \/ ReviewRead(NoFault)
  \/ ReviewWrite(NoFault)
  \/ \E t \in OtherSessions : OtherTabCompletes(t)
  \/ ReviewHome(NoFault)

SpecRace == InitScore /\ [][NextRace]_vars

\* the records a data file may hold: the two bundled ones, whole or with one
\* of three of the required keys missing
AnyRecords ==
  LET whole == {DataFiles[f][1] : f \in 1..Len(DataFiles)}
  IN whole \cup {Without(q, key) : q \in whole, key \in {"system", "choice_a", "stem"}}

FilesOf(records, n) == UNION {[1..k -> records] : k \in 0..n}

\* the program starts in a directory with two data files of such records
InitLoad ==
  /\ SessionInit
  /\ users_ws = <<>>
  /\ progress_ws = <<>>
  /\ tests_ws = <<>>
  /\ now = 0
  /\ drawn = {}
  /\ op = Op("Init", NoFault)
  /\ \E first \in FilesOf(AnyRecords, MaxRecords), second \in FilesOf(AnyRecords, 1) :
       load = NotLoaded(<<first, second>>)

\* line 77: QUESTIONS = load_all_questions()
LoadQuestions ==
  /\ ~load.done
  /\ load' = Loaded(load.files)
  /\ UNCHANGED <<sessionVars, storeVars, now, drawn, op>>

NextLoad == LoadQuestions

SpecLoad == InitLoad /\ [][NextLoad]_vars

\* the forms in which a row of the tests worksheet carries its completed
\* value: as this program writes it, as an empty cell under the header, or
\* not at all when the sheet has no such column
StoredForms(r) ==
  {[r EXCEPT !.completed = v] : v \in {"true", "false", ""}}
  \cup {[k \in DOMAIN r \ {"completed"} |-> r[k]]}

\* an account with one or two Test Records in any of these forms
InitLegacy ==
  /\ SessionInit
  /\ users_ws = <<[username |-> "u1", password_hash |-> hash_pw("p1"), created |-> 0]>>
  /\ progress_ws = <<[username |-> "u1", used |-> {}, correct |-> {}, incorrect |-> {},
                      marked |-> {}]>>
  /\ \E a \in StoredForms(TestRow("u1", ListedSession("t1"), TRUE, 0)),
        b \in StoredForms(TestRow("u1", ListedSession("t2"), TRUE, 1)), n \in 1..2 :
       tests_ws = SubSeq(<<a, b>>, 1, n)
  /\ now = 1
  /\ drawn = {"t1", "t2"}
  /\ op = Op("Init", NoFault)
  /\ load = Loaded(DataFiles)

\* the user logs in, looks at the history and resumes or reviews what the
\* pages offer
NextLegacy ==
  \/ \E u \in Usernames, p \in Passwords : login(u, p, NoFault)
  \/ navigate_to("previous_menu")
  \/ RenderProgressPage(NoFault)
  \/ go_back
  \/ ContinueLastHome(NoFault)
  \/ \E i \in 1..MaxRows : ContinueThis(i, NoFault)
  \/ \E i \in 1..MaxRows : ReviewThis(i, NoFault)
  \/ TestRun
  \/ TestReviewHome

SpecLegacy == InitLegacy /\ [][NextLegacy]_vars

\* Test-mode sessions taken one after the other in one browser session: the
\* second is created from the previous-tests page after the first timed out
NextTimer ==
  \/ \E u \in Usernames, p \in Passwords : signup(u, p, NoFault)
  \/ \E u \in Usernames, p \in Passwords : login(u, p, NoFault)
  \/ navigate_to("create")
  \/ RenderProgressPage(NoFault)
  \/ CreateStep({NoFault}, {"t1", "t2"}, {"Test"})
  \/ TestTimeUp(NoFault)
  \/ TestRun
  \/ \E letter \in PickLetters : SelectAnswer(letter)
  \/ NextQuestion
  \/ RenderReview(NoFault)
  \/ ReviewAnalytics(NoFault)
  \/ Tab3Create(NoFault)
  \/ ClockStep

SpecTimer == Init /\ [][NextTimer]_vars

\* the clock moves only while the test page of a Test-mode session is open, one
\* question's share of the budget at a time
TestClock ==
  /\ page = "test" /\ Active
  /\ AdvanceTime(SecondsPerQuestion)

\* one Test-mode session, started when the clock reads 0, ended with End & Save
\* and resumed from the home page: the reading of the clock is the test time
\* the session has used
NextBudget ==
  \/ \E u \in Usernames, p \in Passwords : signup(u, p, NoFault)
  \/ \E u \in Usernames, p \in Passwords : login(u, p, NoFault)
  \/ navigate_to("create")
  \/ RenderProgressPage(NoFault)
  \/ CreateStep({NoFault}, {"t1"}, {"Test"})
  \/ TestRun
  \/ \E letter \in PickLetters : SelectAnswer(letter)
  \/ NextQuestion
  \/ TestTimeUp(NoFault)
  \/ EndAndSave(NoFault)
  \/ ContinueLastHome(NoFault)
  \/ RenderReview(NoFault)
  \/ TestClock

SpecBudget == Init /\ [][NextBudget]_vars

\* one Reading-mode session answered, marked and finished; the results page is
\* run again by each of its buttons
NextRepeat ==
  \/ \E u \in Usernames, p \in Passwords : signup(u, p, NoFault)
  \/ \E u \in Usernames, p \in Passwords : login(u, p, NoFault)
  \/ navigate_to("create")
  \/ RenderProgressPage(NoFault)
  \/ CreateStep({NoFault}, {"t1"}, {"Reading"})
  \/ TestRun
  \/ \E letter \in PickLetters : SelectAnswer(letter)
  \/ NextQuestion
  \/ ToggleMark
  \/ RenderReview(NoFault)
  \/ ReviewHome(NoFault)
  \/ ReviewAnalytics(NoFault)
  \/ ReviewTest(NoFault)

SpecRepeat == Init /\ [][NextRepeat]_vars

\* the Test-mode sessions an earlier start of the program may have saved with
\* End & Save over a question that is no longer in the data files
InterruptedSessions ==
  {[id |-> "t0", questions |-> <<RemovedQuestion, QUESTIONS[1]>>, answers |-> a,
    marked |-> {}, index |-> i, mode |-> "Test", start |-> 0, is_review |-> FALSE] :
     a \in {EmptyAnswers} \cup {(RemovedQuestion.id :> l) : l \in Range(Letters)},
     i \in 0..1}

\* the program starts with an account and one incomplete Test-mode record
InitLive ==
  /\ SessionInit
  /\ users_ws = <<[username |-> "u1", password_hash |-> hash_pw("p1"), created |-> 0]>>
  /\ progress_ws = <<[username |-> "u1", used |-> {}, correct |-> {}, incorrect |-> {},
                      marked |-> {}]>>
  /\ \E s \in InterruptedSessions : tests_ws = <<TestRow("u1", s, FALSE, 0)>>
  /\ now = 0
  /\ drawn = {"t0"}
  /\ op = Op("Init", NoFault)
  /\ load = Loaded(DataFiles)

\* lines 1056, 1129-1164, 1187-1189: the last run of the test page asked for
\* another run, with st.rerun() or after the one-second sleep at its end; a
\* run that raised before the end asked for none
RerunScheduled == pending \/ (Active /\ screen.message # "KeyError")

\* the run of the test page that the page itself has scheduled
TimerTick ==
  /\ page = "test" /\ RerunScheduled
  /\ TestRun \/ TestTimeUp(NoFault)

\* the stored session is resumed, answered, navigated, ended or timed out
NextLive ==
  \/ \E u \in Usernames, p \in Passwords : login(u, p, NoFault)
  \/ ContinueLastHome(NoFault)
  \/ TestRun
  \/ TestTimeUp(NoFault)
  \/ \E letter \in PickLetters : SelectAnswer(letter)
  \/ Previous
  \/ NextQuestion
  \/ EndAndSave(NoFault)
  \/ RenderReview(NoFault)
  \/ ReviewHome(NoFault)
  \/ ClockStep

\* the clock runs, and a scheduled run of the test page takes place
SpecLive ==
  InitLive /\ [][NextLive]_vars /\ WF_vars(ClockStep) /\ WF_vars(TimerTick)

\* the Reading-mode sessions an earlier start of the program may have saved
\* with End & Save, when the data files held the removed question too
LongSessions ==
  {[id |-> "t0", questions |-> <<RemovedQuestion, QUESTIONS[1], QUESTIONS[2]>>,
    answers |-> a, marked |-> {}, index |-> i, mode |-> "Reading", start |-> 0,
    is_review |-> FALSE] :
     a \in {EmptyAnswers, RemovedQuestion.id :> "A"}, i \in 0..2}

\* the program starts with an account and one incomplete record over every
\* question of the data files and the removed one
InitUsage ==
  /\ SessionInit
  /\ users_ws = <<[username |-> "u1", password_hash |-> hash_pw("p1"), created |-> 0]>>
  /\ progress_ws = <<[username |-> "u1", used |-> {}, correct |-> {}, incorrect |-> {},
                      marked |-> {}]>>
  /\ \E s \in LongSessions : tests_ws = <<TestRow("u1", s, FALSE, 0)>>
  /\ now = 0
  /\ drawn = {"t0"}
  /\ op = Op("Init", NoFault)
  /\ load = Loaded(DataFiles)

\* the stored session is resumed, answered and finished, and the analytics
\* tab is opened from its results
NextUsage ==
  \/ \E u \in Usernames, p \in Passwords : login(u, p, NoFault)
  \/ ContinueLastHome(NoFault)
  \/ TestRun
  \/ \E letter \in PickLetters : SelectAnswer(letter)
  \/ Previous
  \/ NextQuestion
  \/ EndAndSave(NoFault)
  \/ RenderReview(NoFault)
  \/ ReviewAnalytics(NoFault)
  \/ RenderProgressPage(NoFault)

SpecUsage == InitUsage /\ [][NextUsage]_vars

\* ---------------------------------------------------------------- properties
\* the step is a run of the script triggered by this operation
Ran(name) == op'.name = name /\ now' = now

Last(t) == Len(t.questions) - 1

UserRow == progress_ws[FirstRow(progress_ws, user, 1)]

CompletedRowOf(ws, id) ==
  \E i \in 1..Len(ws) : ws[i].test_id = id /\ ws[i].completed = "true"

\* C1: in every reachable state the index of the held session, and the index
\* stored in every Test Record, is at least 0 and below the number of
\* questions of that session.
C1_IndexInRange ==
  /\ test # NoTest => test.index >= 0 /\ test.index < Len(test.questions)
  /\ \A i \in 1..Len(tests_ws) :
       /\ tests_ws[i].test_data.index >= 0
       /\ tests_ws[i].test_data.index < Len(tests_ws[i].test_data.questions)

\* a session resumed at its last question
C1_Witness ==
  /\ op.name = "Continue" /\ page = "test"
  /\ Len(test.questions) = 2 /\ test.index = Last(test)

\* C2: Previous at index 0 leaves the index unchanged; Next at the last index
\* keeps the index and goes to the results page, whose run writes the Test
\* Record with completed = true; Next at an earlier index adds exactly 1 to
\* the index and stays on the test page.
C2_Navigate ==
  [][ /\ (Ran("Previous") /\ test.index = 0) =>
           (test'.index = 0 /\ page' = "test")
      /\ (Ran("Next") /\ test.index = Last(test)) =>
           (test'.index = test.index /\ page' = "review" /\ pending')
      /\ (Ran("Next") /\ test.index < Last(test)) =>
           (test'.index = test.index + 1 /\ page' = "test")
      /\ (Ran("Render") /\ page = "review") =>
           (page' = "review" /\ test' = test /\ CompletedRowOf(tests_ws', test.id))
    ]_vars

\* Finish was pressed on the last of two questions and the results are shown
C2_Witness ==
  /\ page = "review" /\ ~pending /\ op.name = "Render"
  /\ test.mode = "Reading" /\ Len(test.questions) = 2 /\ test.index = 1
  /\ CompletedRowOf(tests_ws, test.id)

\* C3: while the results page is shown, every question id of the session is
\* in the used set of the progress it computed and saved, is in correct
\* exactly when the recorded answer equals the correct letter, and is in
\* incorrect exactly when it does not (an unanswered question is incorrect).
C3_Outcome(p) ==
  \A i \in 1..Len(test.questions) :
    LET q == test.questions[i]
        hit == Get(test.answers, q.id) = q.answer
    IN /\ q.id \in p.used
       /\ q.id \in p.correct <=> hit
       /\ q.id \in p.incorrect <=> ~hit

C3_CompleteSets ==
  (page = "review" /\ ~pending) =>
     /\ C3_Outcome(prog)
     /\ op.ok => (FirstRow(progress_ws, user, 1) > 0 /\ C3_Outcome(UserRow))

\* a question answered wrongly in an earlier completed test is answered
\* correctly in this one and has moved from incorrect to correct
C3_Witness ==
  /\ page = "review" /\ ~pending /\ op.ok
  /\ \E i \in 1..Len(tests_ws), j \in 1..Len(test.questions) :
       LET q == test.questions[j]
           r == tests_ws[i]
       IN /\ r.test_id # test.id /\ r.completed = "true"
          /\ \E k \in 1..Len(r.test_data.questions) : r.test_data.questions[k].id = q.id
          /\ Get(r.test_data.answers, q.id) # q.answer
          /\ Get(test.answers, q.id) = q.answer
          /\ q.id \in UserRow.correct /\ q.id \notin UserRow.incorrect

\* C4: in every row of the progress worksheet, every id in correct or in
\* incorrect is also in used.
C4_UsedCoversOutcomes ==
  \A i \in 1..Len(progress_ws) :
    (progress_ws[i].correct \cup progress_ws[i].incorrect) \subseteq progress_ws[i].used

\* a completion whose progress read failed has written its sets: the row holds
\* the ids of this session only, although another test was completed before
C4_Witness ==
  /\ page = "review" /\ ~pending /\ op.name = "Render" /\ ~op.ok
  /\ FirstRow(progress_ws, user, 1) > 0
  /\ UserRow.used = {test.questions[j].id : j \in 1..Len(test.questions)}
  /\ UserRow.correct \cup UserRow.incorrect = UserRow.used
  /\ \E i \in 1..Len(tests_ws) :
       /\ tests_ws[i].test_id # test.id /\ tests_ws[i].completed = "true"
       /\ \E k \in 1..Len(tests_ws[i].test_data.questions) :
            tests_ws[i].test_data.questions[k].id \notin UserRow.used

\* C5: a run of the test page of a Test-mode session whose elapsed time has
\* reached questionCount x 90 seconds records the selected option, writes the
\* Test Record with completed = true and goes to the results page, at any index.
C5_Deadline ==
  [][ ( /\ page = "test" /\ test.mode = "Test" /\ test.start >= 0
        /\ now - test.start >= Len(test.questions) * SecondsPerQuestion
        /\ now' = now )
      => ( /\ page' = "review"
           /\ test'.index = test.index
           /\ radio # "" =>
                Get(test'.answers, CurrentQuestion(test).id)
                  = FirstLetter(CurrentQuestion(test), radio, 1)
           /\ \E i \in 1..Len(tests_ws') :
                /\ tests_ws'[i].test_id = test.id
                /\ tests_ws'[i].completed = "true"
                /\ tests_ws'[i].test_data.answers = test'.answers )
    ]_vars

\* two questions, 180 seconds elapsed, first question shown
C5_Witness ==
  /\ op.name = "TimeUp" /\ page = "review"
  /\ Len(test.questions) = 2 /\ test.index = 0
  /\ now - test.start >= 180
  /\ CompletedRowOf(tests_ws, test.id)

\* C6: Start with count <= |pool| creates a session with exactly count
\* pairwise distinct questions of the pool, index 0, no answers, no marks.
C6_Start ==
  [][ (Ran("StartTest") /\ op'.num_q <= Cardinality(op'.pool)) =>
        ( /\ test'.id \notin drawn
          /\ Len(test'.questions) = op'.num_q
          /\ \A i, j \in 1..Len(test'.questions) :
               i # j => test'.questions[i].id # test'.questions[j].id
          /\ \A i \in 1..Len(test'.questions) :
               /\ test'.questions[i].id \in op'.pool
               /\ test'.questions[i] \in Range(QUESTIONS)
          /\ test'.index = 0
          /\ test'.answers = EmptyAnswers
          /\ test'.marked = {}
          /\ page' = "test" )
    ]_vars

\* a pool of two, one question asked for
C6_Witness ==
  /\ op.name = "StartTest" /\ op.num_q = 1 /\ Cardinality(op.pool) = 2
  /\ page = "test" /\ pending /\ Len(test.questions) = 1

\* C7 as stated: Start with count above the size of a non-empty pool creates a
\* session holding |pool| questions.
C7_Caps ==
  [][ (Ran("StartTest") /\ op'.pool # {} /\ op'.num_q > Cardinality(op'.pool)) =>
        ( /\ test'.id \notin drawn
          /\ Len(test'.questions) = Cardinality(op'.pool)
          /\ page' = "test" )
    ]_vars

\* C7 amended: a Start creates a session only when count <= |pool|, and that
\* session holds exactly count questions; with count above |pool| the held
\* session is left as it was and no uuid is drawn.
C7_NeverCaps ==
  [][ Ran("StartTest") =>
        IF op'.num_q <= Cardinality(op'.pool)
        THEN Len(test'.questions) = op'.num_q
        ELSE test' = test /\ drawn' = drawn
    ]_vars

\* count 2 against a pool of 1: no session
C7_Witness ==
  /\ op.name = "StartTest" /\ op.num_q = 2 /\ Cardinality(op.pool) = 1
  /\ test = NoTest /\ page = "create"

\* C8: a Start asking for more questions than the pool holds shows the error
\* and changes neither the page, the held session nor the tests worksheet.
C8_Refuses ==
  [][ (Ran("StartTest") /\ op'.num_q > Cardinality(op'.pool)) =>
        ( /\ screen'.message = "Not enough questions available"
          /\ page' = page
          /\ test' = test
          /\ tests_ws' = tests_ws )
    ]_vars

\* refused while an earlier session is still held
C8_Witness ==
  /\ op.name = "StartTest" /\ op.num_q > Cardinality(op.pool)
  /\ screen.message = "Not enough questions available"
  /\ test # NoTest /\ page = "create" /\ tests_ws # <<>>

\* C9: selecting an option records its letter under the id of the shown
\* question, replacing an earlier answer of that question, and leaves the
\* answers of every other question as they were.
C9_Answer ==
  [][ Ran("Answer") =>
        LET qid == CurrentQuestion(test).id
        IN /\ DOMAIN test'.answers = DOMAIN test.answers \cup {qid}
           /\ test'.answers[qid] = op'.letter
           /\ \A other \in DOMAIN test.answers \ {qid} :
                test'.answers[other] = test.answers[other]
    ]_vars

\* the answer saved earlier for the shown question has been replaced, and the
\* other question keeps its answer
C9_Witness ==
  /\ op.name = "Answer" /\ page = "test"
  /\ Cardinality(DOMAIN test.answers) = 2
  /\ \E i \in 1..Len(tests_ws) :
       LET qid == CurrentQuestion(test).id
           saved == tests_ws[i].test_data.answers
       IN /\ tests_ws[i].test_id = test.id
          /\ DOMAIN saved = DOMAIN test.answers
          /\ saved[qid] # test.answers[qid]
          /\ test.answers[qid] = op.letter

\* C10: the Reading-mode feedback is on the screen only while the shown
\* question has a recorded answer.
C10_FeedbackAfterAnswer ==
  screen.feedback =>
    /\ page = "test" /\ test.mode = "Reading"
    /\ CurrentQuestion(test).id \in DOMAIN test.answers

\* feedback for a wrong answer
C10_Witness ==
  /\ screen.feedback
  /\ test.answers[CurrentQuestion(test).id] # CurrentQuestion(test).answer

\* the correct answers are on the screen: the Reading-mode feedback of the
\* test page, the results page or the review page
AnswersShown == screen.feedback \/ (page \in {"review", "test_review"} /\ ~pending)

\* C11: while a Test-mode session is on the test page no answer feedback is
\* displayed, and whenever the correct answers of a Test-mode session are on
\* the screen its Test Record is stored with completed = true.
C11_DeferredFeedback ==
  /\ (page = "test" /\ test.mode = "Test") => ~screen.feedback
  /\ (test.mode = "Test" /\ AnswersShown) => CompletedRowOf(tests_ws, test.id)

\* a Test-mode session whose shown question has just been answered
C11_Witness ==
  /\ page = "test" /\ ~pending /\ test.mode = "Test" /\ op.name = "Answer"
  /\ radio # "" /\ CurrentQuestion(test).id \in DOMAIN test.answers
  /\ ~CompletedRowOf(tests_ws, test.id)

\* the positions of a question list whose recorded answer is the correct letter
Hits(questions, answers) ==
  {i \in 1..Len(questions) : Get(answers, questions[i].id) = questions[i].answer}

\* C12: the score of every Test Record is the number of its questions whose
\* recorded answer equals the correct letter and lies between 0 and the total;
\* the results page shows the score its run wrote to the Test Record; the
\* percentages of the results page and of the analytics tab are computed
\* without error and are 0 whenever the denominator is 0.
C12_Score ==
  /\ \A i \in 1..Len(tests_ws) :
       LET r == tests_ws[i]
       IN /\ r.score = Cardinality(Hits(r.test_data.questions, r.test_data.answers))
          /\ 0 <= r.score /\ r.score <= r.total_questions
  /\ (page = "review" /\ ~pending) =>
       /\ screen.score = Cardinality(Hits(test.questions, test.answers))
       /\ \E i \in 1..Len(tests_ws) :
            /\ tests_ws[i].test_id = test.id
            /\ tests_ws[i].score = screen.score
            /\ tests_ws[i].total_questions = screen.total
       /\ ~screen.percent.error
       /\ screen.total = 0 => screen.percent.value = 0
       /\ screen.total > 0 => screen.percent.value = (screen.score * 100) \div screen.total
  /\ (page = "previous_menu" /\ ~pending /\ op.name = "Render") =>
       /\ ~screen.usage.error
       /\ LET done == CompletedTests(get_user_tests(tests_ws, user, "ok"))
          IN /\ Len(screen.trend) = Len(done)
             /\ \A i \in 1..Len(done) :
                  /\ ~screen.trend[i].error
                  /\ done[i].total_questions = 0 => screen.trend[i].value = 0
  /\ \A n \in 0..MaxNumQ : usage_percent(n, 0) = ZeroPercent

\* the analytics tab shows the trend point of a completed session without
\* questions: total 0, percentage 0
C12_Witness ==
  /\ page = "previous_menu" /\ ~pending /\ op.name = "Render"
  /\ Len(screen.trend) = 1 /\ screen.trend[1] = ZeroPercent
  /\ tests_ws[1].total_questions = 0 /\ tests_ws[1].completed = "true"

\* C13: once a row of the tests worksheet holds a session with completed =
\* true, no step puts that session on the test page again, and the row keeps
\* its session id, its completed flag and its answers.
C13_OneWay ==
  [][ \A i \in 1..Len(tests_ws) :
        tests_ws[i].completed = "true" =>
          /\ ~(page' = "test" /\ test'.id = tests_ws[i].test_id /\ ~test'.is_review)
          /\ i <= Len(tests_ws')
          /\ tests_ws'[i].test_id = tests_ws[i].test_id
          /\ tests_ws'[i].completed = "true"
          /\ tests_ws'[i].test_data.answers = tests_ws[i].test_data.answers
    ]_vars

\* C14: the tests worksheet holds at most one row per session identifier.
C14_OneRowPerSession ==
  \A i, j \in 1..Len(tests_ws) :
    tests_ws[i].test_id = tests_ws[j].test_id => i = j

\* C15: a Continue that resumes the session End & Save has stored builds a
\* session with the same id, the same questions in the same order, the same
\* answers, the same marked set, the same index and the same mode as the
\* session that was saved (which session_state still holds).
C15_RoundTrip ==
  [][ (Ran("Continue") /\ page' = "test" /\ test'.id = test.id) =>
        ( /\ test'.questions = test.questions
          /\ test'.answers = test.answers
          /\ test'.marked = test.marked
          /\ test'.index = test.index
          /\ test'.mode = test.mode
          /\ ~test'.is_review
          /\ \E i \in 1..Len(tests_ws) :
               /\ tests_ws[i].test_id = test.id
               /\ tests_ws[i].completed = "false"
               /\ tests_ws[i].test_data.index = test.index )
    ]_vars

\* resumed at the second question with an answer and a mark
C15_Witness ==
  /\ op.name = "Continue" /\ page = "test" /\ pending
  /\ test.index = 1 /\ test.marked # {} /\ DOMAIN test.answers # {}
  /\ test.questions[1].id = "Renal_1"

\* the rows of the logged-in user with completed = false
IncompleteRows ==
  {i \in 1..Len(tests_ws) :
     tests_ws[i].username = user /\ tests_ws[i].completed = "false"}

\* C16: on the home page at most one test is offered for resume; none is
\* offered exactly when the user has no incomplete Test Record; the offered
\* one is an incomplete record of the user whose created timestamp is not
\* older than that of any other incomplete record of the user; and Continue
\* Last Test resumes the offered one.
C16_NewestIncomplete ==
  [][ page = "home" =>
        LET offered == last_incomplete_test(get_user_tests(tests_ws, user, "ok"))
        IN /\ Len(offered) <= 1
           /\ offered = <<>> <=> IncompleteRows = {}
           /\ offered # <<>> =>
                /\ \E i \in IncompleteRows :
                     /\ tests_ws[i].test_id = offered[1].test_id
                     /\ tests_ws[i].created = offered[1].created
                /\ \A j \in IncompleteRows : tests_ws[j].created.t <= offered[1].created.t
           /\ Ran("Continue") =>
                /\ offered # <<>>
                /\ test'.id = offered[1].test_id
                /\ page' = "test"
    ]_vars

\* the newer of two incomplete records is in the second row and is the one
\* resumed
C16_Witness ==
  /\ op.name = "Continue" /\ page = "test" /\ pending
  /\ Len(tests_ws) = 2
  /\ tests_ws[1].completed = "false" /\ tests_ws[2].completed = "false"
  /\ tests_ws[1].created.t < tests_ws[2].created.t
  /\ test.id = tests_ws[2].test_id

\* C17: no run of a page that shows a resumed or reviewed session ends with
\* an uncaught KeyError, whatever letter is stored for a question whose id no
\* longer resolves.
C17_NoFatalError == screen.message # "KeyError"

\* the time a created cell denotes when it is in a date format, -1 otherwise
StampTime(created) == IF created.fmt = "text" THEN -1 ELSE created.t

\* C18: the history shown by the previous-tests page holds every Test Record
\* of the user exactly once, newest first by the time of its created cell,
\* records whose cell is not a date after all others; this for every mix of
\* formats of the created cells.
C18_Listing ==
  (page = "previous_menu" /\ ~pending /\ op.name = "Render") =>
     LET mine == RowsOf(tests_ws, user)
     IN /\ Len(screen.history) = Len(mine)
        /\ {screen.history[i].test_id : i \in 1..Len(screen.history)}
             = {mine[i].test_id : i \in 1..Len(mine)}
        /\ \A i, j \in 1..Len(screen.history) :
             i < j => StampTime(screen.history[i].created)
                        >= StampTime(screen.history[j].created)

\* C19: a Start Test whose systems selection and whose filters selection both
\* contain "All" computes the full question list as its pool, in its order.
C19_AllIsIdentity ==
  (op.name = "StartTest" /\ "All" \in op.systems /\ "All" \in op.filters) =>
     op.filtered = QUESTIONS

\* "All" selected together with Cardio and together with Unused and Marked,
\* while both questions are used and unmarked
C19_Witness ==
  /\ op.name = "StartTest"
  /\ op.systems = {"All", "Cardio"} /\ op.filters = {"All", "Unused", "Marked"}
  /\ Cardinality(progress_ws[1].used) = 2 /\ progress_ws[1].marked = {}
  /\ Len(op.filtered) = 2

\* the question satisfies every selected status filter
Passes(q, filters, p) ==
  /\ "Unused" \in filters => q.id \notin p.used
  /\ "Correct" \in filters => q.id \in p.correct
  /\ "Incorrect" \in filters => q.id \in p.incorrect
  /\ "Marked" \in filters => q.id \in p.marked

\* C20: a Start Test with "All" selected neither as system nor as filter
\* computes as its pool the questions, in the order of the question list,
\* whose system is selected and that satisfy every selected status filter;
\* with {Unused} alone these are the questions whose id is not in used; the
\* progress row is left as it was.
C20_Filtered ==
  [][ (Ran("StartTest") /\ "All" \notin op'.systems /\ "All" \notin op'.filters) =>
        /\ op'.filtered = SelectSeq(QUESTIONS, LAMBDA q :
               q.system \in op'.systems /\ Passes(q, op'.filters, UserRow))
        /\ op'.filters = {"Unused"} =>
             op'.filtered = SelectSeq(QUESTIONS, LAMBDA q :
               q.system \in op'.systems /\ q.id \notin UserRow.used)
        /\ progress_ws' = progress_ws
    ]_vars

\* Incorrect and Marked selected together: one question is incorrect and
\* marked, the other is incorrect only, and the pool holds the first alone
C20_Witness ==
  /\ op.name = "StartTest"
  /\ op.systems = {"Cardio", "Renal"} /\ op.filters = {"Incorrect", "Marked"}
  /\ Cardinality(progress_ws[1].incorrect) = 2
  /\ Cardinality(progress_ws[1].marked) = 1
  /\ Len(op.filtered) = 1 /\ op.filtered[1].id \in progress_ws[1].marked

\* C21: a Mark / Unmark press flips the membership of the id of the shown
\* question in the marked set of the session and of no other id, a second
\* toggle of the same question gives the original set back, and the press
\* leaves the index, the questions and the answers as they were.
C21_Toggle ==
  [][ Ran("ToggleMark") =>
        LET qid == CurrentQuestion(test).id
        IN /\ qid \in test'.marked <=> qid \notin test.marked
           /\ test'.marked \ {qid} = test.marked \ {qid}
           /\ ToggledMarked(test'.marked, qid) = test.marked
           /\ test'.index = test.index
           /\ test'.questions = test.questions
           /\ test'.answers = test.answers
    ]_vars

\* the shown question, answered and marked before, has just been unmarked
\* while the other question stays marked
C21_Witness ==
  /\ op.name = "ToggleMark" /\ page = "test"
  /\ Len(test.questions) = 2
  /\ CurrentQuestion(test).id \notin test.marked
  /\ CurrentQuestion(test).id \in DOMAIN test.answers
  /\ test.marked # {}

EmptyRow(username) ==
  [username |-> username, used |-> {}, correct |-> {}, incorrect |-> {}, marked |-> {}]

\* C22: a run that reads the progress of a user without a row appends exactly
\* one row with four empty sets for that user and leaves the other rows
\* alone, the read returns four empty sets, and a second read returns the
\* same sets and adds no row; a run that finds the row leaves the worksheet
\* as it was.
C22_FirstRead ==
  [][ (Ran("Render") /\ page \in {"create", "previous_menu"}) =>
        LET first == get_user_progress(progress_ws, user, "ok")
            again == get_user_progress(first.ws, user, "ok")
        IN IF FirstRow(progress_ws, user, 1) = 0
           THEN /\ progress_ws' = Append(progress_ws, EmptyRow(user))
                /\ Len(RowsOf(progress_ws', user)) = 1
                /\ first.prog = EmptyProgress
                /\ again.prog = EmptyProgress
                /\ again.ws = progress_ws'
           ELSE /\ progress_ws' = progress_ws
                /\ again = first
    ]_vars

\* the row of the user has been created by a read and stands behind the row
\* of another account
C22_Witness ==
  /\ page = "create" /\ ~pending /\ op.name = "Render"
  /\ Len(progress_ws) = 2
  /\ progress_ws[1].username = "u0" /\ progress_ws[1].used # {}
  /\ progress_ws[2] = EmptyRow(user)

\* C23: the progress worksheet changes only when signup appends the row of
\* the new account, with four empty sets, and in runs of the results page of
\* a finished test; a Start, an answer, Previous, Next, Jump, Mark / Unmark, a
\* timer run, a tick of the clock, End & Save and a resume leave every row as
\* it was.
C23_ProgressFrame ==
  [][ /\ progress_ws' # progress_ws =>
           \/ /\ page = "login"
              /\ \E u \in Usernames :
                   /\ FirstRow(progress_ws, u, 1) = 0
                   /\ progress_ws' = Append(progress_ws, EmptyRow(u))
           \/ page = "review" /\ Len(progress_ws') = Len(progress_ws)
      /\ (op'.name \in {"StartTest", "Answer", "Previous", "Next", "JumpTo", "ToggleMark",
                        "Tick", "TimeUp", "EndAndSave", "Continue"}
          \/ now' # now) => progress_ws' = progress_ws
    ]_vars

\* End & Save of a session with an answer and a mark: the row of the user
\* still holds four empty sets
C23_Witness ==
  /\ op.name = "EndAndSave" /\ page = "home"
  /\ test.marked # {} /\ DOMAIN test.answers # {}
  /\ UserRow.used = {}
  /\ UserRow.marked = {}

\* C24: a run of the review page leaves the questions, the answers and the
\* marked set of the session and the three worksheets as they were; Previous
\* and Next stay on the page and change nothing but the index, by one step
\* inside the question list, or not at all at its ends.
C24_ReviewReadOnly ==
  [][ (page = "test_review" /\ now' = now) =>
        /\ test'.questions = test.questions
        /\ test'.answers = test.answers
        /\ test'.marked = test.marked
        /\ storeVars' = storeVars
        /\ op'.name \in {"ReviewPrevious", "ReviewNext"} =>
             /\ page' = page
             /\ test' = [test EXCEPT !.index = test'.index]
             /\ test'.index = (IF op'.name = "ReviewNext"
                               THEN (IF test.index = Last(test) THEN test.index
                                     ELSE test.index + 1)
                               ELSE (IF test.index = 0 THEN 0 ELSE test.index - 1))
    ]_vars

\* Next has moved the review of a completed two-question session, one of its
\* answers wrong, to the second question
C24_Witness ==
  /\ page = "test_review" /\ op.name = "ReviewNext"
  /\ test.is_review /\ Len(test.questions) = 2 /\ test.index = 1
  /\ CompletedRowOf(tests_ws, test.id)
  /\ \E i \in 1..2 : /\ test.questions[i].id \in DOMAIN test.answers
                     /\ test.answers[test.questions[i].id] # test.questions[i].answer

\* C25: the run that draws the analytics summary of the previous-tests page
\* leaves the users, the progress and the tests worksheets as they were, for
\* a user with a progress row and for a user without one.
C25_AnalyticsPure ==
  [][ (Ran("Render") /\ page = "previous_menu") => storeVars' = storeVars ]_vars

\* the rows of the logged-in user with completed = true
CompletedRows ==
  {i \in 1..Len(tests_ws) : tests_ws[i].username = user /\ tests_ws[i].completed = "true"}

\* C26: the score trend drawn by the analytics tab has one point for each of
\* the 10 most recently created completed tests of the user, for all of them
\* when there are fewer than 10: no completed test without a point was
\* created after one that has a point.
C26_RecentTrend ==
  (page = "previous_menu" /\ ~pending /\ op.name = "Render") =>
     LET plotted == {i \in CompletedRows : tests_ws[i].test_id \in Range(screen.trend_of)}
     IN /\ Range(screen.trend_of) \subseteq {tests_ws[i].test_id : i \in CompletedRows}
        /\ Cardinality(plotted) = (IF Cardinality(CompletedRows) <= TrendWindow
                                   THEN Cardinality(CompletedRows) ELSE TrendWindow)
        /\ \A i \in plotted, j \in CompletedRows \ plotted :
             tests_ws[j].created.t < tests_ws[i].created.t

\* C27: a run in which a call to the progress or the tests worksheet fails
\* ends on a page of the program with the questions, the marked set and the
\* index of the session as they were and its answers as the run recorded
\* them before the call, and the session is still on the page whose runs make
\* that call, so that the user can trigger it again: the create or the
\* previous-tests page after a failed read, the results page after a failed
\* save of a finished test, the test page after a failed End & Save.
C27_CaughtAndRepeatable ==
  [][ (now' = now /\ ~op'.ok) =>
        /\ (op'.name = "Render" /\ page \in {"create", "previous_menu", "review"}) =>
             (test' = test /\ page' = page)
        /\ op'.name = "TimeUp" =>
             /\ test' = [test EXCEPT !.answers =
                           save_current_answer(@, CurrentQuestion(test), current_choice)]
             /\ page' = "review"
        /\ op'.name = "EndAndSave" =>
             /\ test' = [test EXCEPT !.answers =
                           save_current_answer(@, CurrentQuestion(test), current_choice)]
             /\ page' = "test"
    ]_vars

\* C28: the write of the results page stores the sets its run computed from
\* the row it read, whatever the row holds at the time of the write: an id
\* another session has added since the read, and that the run did not compute,
\* is no longer in the row.
C28_LastWriteWins ==
  [][ /\ (op.name # "ReadProgress" /\ op'.name = "ReadProgress") =>
           prog' = ProgressAfter([used |-> UserRow.used, correct |-> UserRow.correct,
                                  incorrect |-> UserRow.incorrect,
                                  marked |-> UserRow.marked], test)
      /\ (op.name = "ReadProgress" /\ op'.name = "Render") =>
           LET after == progress_ws'[FirstRow(progress_ws', user, 1)]
           IN /\ after.used = prog.used
              /\ after.correct = prog.correct
              /\ after.incorrect = prog.incorrect
              /\ after.marked = prog.marked
              /\ (UserRow.used \ prog.used) \cap after.used = {}
    ]_vars

\* the lost update: both tabs have written, the Test Record of the other tab
\* is stored as completed, and its question is not in the used set of the row
C28_Witness ==
  /\ page = "review" /\ ~pending /\ op.name = "Render"
  /\ CompletedRowOf(tests_ws, test.id) /\ CompletedRowOf(tests_ws, "o1")
  /\ Len(test.questions) = 1
  /\ UserRow.used = {test.questions[1].id}
  /\ \E i \in 1..Len(tests_ws) :
       /\ tests_ws[i].test_id = "o1"
       /\ tests_ws[i].test_data.questions[1].id \notin UserRow.used

\* C29: after the load, every record of every data file that has all the
\* required keys is in the loaded list, the records that stand behind a
\* record without one of the keys in the same file included.
C29_SkipsOnlyMalformed ==
  load.done =>
    \A f \in 1..Len(load.files) : \A i \in 1..Len(load.files[f]) :
      WellFormed(load.files[f][i]) => Normalised(load.files[f][i]) \in Range(load.qs)

\* the row has no completed value: no such key, or an empty cell
NoCompletedValue(r) == "completed" \notin DOMAIN r \/ r.completed = ""

\* C30: a Test Record of the user without a completed value is listed among
\* the completed tests and not among the incomplete ones, and no Continue
\* button puts its session on the test page.
C30_LegacyCompleted ==
  \A i \in 1..Len(tests_ws) :
    (tests_ws[i].username = user /\ NoCompletedValue(tests_ws[i])) =>
       LET tests == get_user_tests(tests_ws, user, "ok")
       IN /\ \E k \in 1..Len(CompletedTests(tests)) :
               CompletedTests(tests)[k].test_id = tests_ws[i].test_id
          /\ \A k \in 1..Len(IncompleteTests(tests)) :
               IncompleteTests(tests)[k].test_id # tests_ws[i].test_id
          /\ ~(op.name = "Continue" /\ page = "test" /\ test.id = tests_ws[i].test_id)

\* C31: the run that ends a Test-mode session because its time is up takes
\* place only when the time elapsed since the start of that session has
\* reached the budget of that session, 90 seconds for each of its questions.
C31_OwnBudget ==
  [][ (op'.name = "TimeUp" /\ page = "test" /\ page' = "review" /\ now' = now) =>
        now - test.start >= Len(test.questions) * SecondsPerQuestion
    ]_vars

\* C32: a run that leaves the displayed question (Previous, Next / Finish, the
\* jump box), ends the session (End & Save) or finds the time up, while no
\* option is selected in the radio widget of the displayed question and the
\* question has no recorded answer, records no answer for that question.
C32_OnlySelected ==
  [][ ( /\ page = "test" /\ radio = ""
        /\ CurrentQuestion(test).id \notin DOMAIN test.answers
        /\ op'.name \in {"Previous", "Next", "JumpTo", "EndAndSave", "TimeUp"}
        /\ now' = now ) =>
        CurrentQuestion(test).id \notin DOMAIN test'.answers
    ]_vars

\* C33: the budget of a Test-mode session covers all the test time it uses,
\* before and after a resume: a run of the test page displays a question of
\* the session only while the test time used since Start is below 90 seconds
\* for each of its questions.
C33_TotalBudget ==
  [][ ( /\ page = "test" /\ page' = "test" /\ Active'
        /\ (Ran("Render") \/ Ran("Tick")) ) =>
        now < calculate_total_test_time(Len(test'.questions))
    ]_vars

\* C34: for every row of the tests worksheet stored with completed "true", the
\* progress row of the owner holds every question id of the row in used.
C34_CompletedCovered ==
  \A i \in 1..Len(tests_ws) :
    tests_ws[i].completed = "true" =>
      /\ FirstRow(progress_ws, tests_ws[i].username, 1) > 0
      /\ {tests_ws[i].test_data.questions[j].id :
             j \in 1..Len(tests_ws[i].test_data.questions)}
           \subseteq progress_ws[FirstRow(progress_ws, tests_ws[i].username, 1)].used

\* C35: a run of the results page removes no id from the used set or from the
\* marked set of any row of the progress worksheet.
C35_NeverRemoves ==
  [][ page = "review" =>
        \A i \in 1..Len(progress_ws) :
          /\ i <= Len(progress_ws')
          /\ progress_ws[i].used \subseteq progress_ws'[i].used
          /\ progress_ws[i].marked \subseteq progress_ws'[i].marked
    ]_vars

\* C36: a run of the results page that follows its first run for the session
\* (the run a press of Home, Analytics or Review Test starts) leaves the
\* progress worksheet as the first run wrote it.
C36_Idempotent ==
  [][ (page = "review" /\ ~pending /\ op'.name \in {"Nav", "ReviewTest"}) =>
        progress_ws' = progress_ws
    ]_vars

\* the results page has run twice for a session with a marked question and an
\* answered one
C36_Witness ==
  /\ page = "home" /\ op.name = "Nav" /\ test.id # ""
  /\ test.marked # {} /\ DOMAIN test.answers # {}
  /\ CompletedRowOf(tests_ws, test.id)
  /\ FirstRow(progress_ws, user, 1) > 0
  /\ UserRow.marked = test.marked
  /\ UserRow.used = {test.questions[j].id : j \in 1..Len(test.questions)}

\* C37: a step keeps the created cell of every row of the tests worksheet: the
\* cell holds the time of the run that inserted the row.
C37_CreatedKept ==
  [][ \A i \in 1..Len(tests_ws) :
        /\ i <= Len(tests_ws')
        /\ tests_ws'[i].test_id = tests_ws[i].test_id
        /\ tests_ws'[i].created = tests_ws[i].created
    ]_vars

\* C38: a Test-mode session that is on the test page, with a deadline the
\* clock reaches, is eventually off the test page: ended with End & Save or
\* completed.
C38_LeavesActive ==
  ( /\ page = "test" /\ Active
    /\ test.start + calculate_total_test_time(Len(test.questions)) <= MaxTime )
    ~> (page # "test")

\* C39: the analytics tab shows an unused count that is not negative and a
\* question usage between 0 and 100 percent.
C39_UsageInRange ==
  (page = "previous_menu" /\ ~pending /\ op.name = "Render") =>
     /\ screen.unused >= 0
     /\ ~screen.usage.error
     /\ screen.usage.value \in 0..100

\* C40: on every page but the login page a user is set and the users
\* worksheet has a row of that user; the user is set only by a press of Login
\* on the login page with that username and a password whose hash is the
\* password_hash of a row of that username; Logout leaves the login page with
\* no user, no test session and an empty navigation history.
C40_Authenticated ==
  /\ [](page # "login" =>
          user # "" /\ \E i \in 1..Len(users_ws) : users_ws[i].username = user)
  /\ [][ /\ (user' # user /\ user' # "") =>
              /\ page = "login" /\ op'.typed # <<>> /\ op'.typed[1] = user'
              /\ \E i \in 1..Len(users_ws) :
                   /\ users_ws[i].username = user'
                   /\ users_ws[i].password_hash = hash_pw(op'.typed[2])
         /\ (page = "home" /\ page' = "login") =>
              user' = "" /\ test' = NoTest /\ navigation_history' = <<>>
     ]_vars

\* after a session was started the user has logged out, and a login with a
\* wrong password has been refused
C40_Witness ==
  /\ page = "login" /\ user = "" /\ test = NoTest /\ navigation_history = <<>>
  /\ tests_ws # <<>>
  /\ op.typed = <<"u1", "bad">> /\ screen = Message("Invalid credentials")

====
